---- MODULE Spec2Model ----
(***************************************************************************)
(* A model of dts-tools: the virtual file layer (host file, partition      *)
(* slice, ISO9660 file, SquashFS file handles), the file-type detection    *)
(* cascade, the disc-tree recognizer, the SND and HDR header codecs, the       *)
(* trailers manifest, trailer extraction and the filesystem backends.      *)
(*                                                                         *)
(* The module holds several specifications over one set of variables; each *)
(* specification moves the variables of one component and leaves the       *)
(* others at their initial value.                                          *)
(***************************************************************************)
EXTENDS Integers, Sequences, FiniteSets, TLC

VARIABLES
    overflowChecks, \* build profile: TRUE = integer overflow panics (debug), FALSE = wraps (release)
    aborted,        \* the process has panicked
    osPos,          \* position of the shared backing OsFile
    handles,        \* window handles opened from one filesystem: [kind, start, len, current]
    last,           \* the last file operation: what was called and what it returned
    probe,          \* type detection: the probed file and the cascade's result
    disc,           \* disc-tree recognizer: the listings and the result
    snd,            \* SND codec: headers, offsets and what the codec made of them
    hdr,            \* HDR decoder: the file and the decoded metadata
    manifest,       \* trailers manifest codec: entries, text and what was decoded
    extract,        \* trailer extraction: the selected sources and what was written
    vfs,            \* filesystem backends: the tree, the path and the lookup's result
    bcd             \* BCD functions: the input and the results

tailVars == <<hdr, manifest, extract, vfs, bcd>>
vars == <<overflowChecks, aborted, osPos, handles, last, probe, disc, snd, tailVars>>

(***************************************************************************)
(* Bounds of the model.                                                    *)
(***************************************************************************)
WordBits == 16      \* u64/usize/i64 are modelled WordBits wide
MaxLen == 2         \* longest window (partition slice, ISO file, SquashFS file)
MaxBuf == 2         \* longest read buffer
ParentTail == 1     \* bytes of the backing file after its sector 2

U64Mod == 2 ^ WordBits
I64Max == 2 ^ (WordBits - 1) - 1

Min(a, b) == IF a < b THEN a ELSE b
Max(a, b) == IF a > b THEN a ELSE b

(***************************************************************************)
(* The virtual file layer.                                                 *)
(***************************************************************************)
ISO_SECTOR_LEN == 2048

Handles == {1, 2}
HostFile == 0
Files == {HostFile} \cup Handles

\* The backing file: ParentLen bytes, byte i holding ParentByte(i).
ParentLen == 2 * ISO_SECTOR_LEN + ParentTail
ParentByte(i) == i % 256
ParentSlice(at, k) == [i \in 1..k |-> ParentByte(at + i - 1)]

SeekStart(a) == [whence |-> "Start", off |-> a]
SeekEnd(k) == [whence |-> "End", off |-> k]
SeekCurrent(d) == [whence |-> "Current", off |-> d]

\* `as i64` of a u64
AsI64(u) == IF u > I64Max THEN u - U64Mod ELSE u

\* What an operation on file f gives back: st is "ok", "err" (an Err result)
\* or "panic"; w is the world after it (backing position and handles).
Result(st, w, ret, data) == [st |-> st, w |-> w, ret |-> ret, data |-> data]
Fail(r) == Result(r.st, r.w, 0, <<>>)

\* std::fs::File behind OsFile: seeking past the end is allowed, before the
\* start (or beyond i64) is an error; a read stops at the end of the file.
OsFileSeek(w, pos) ==
    LET target == CASE pos.whence = "Start" -> pos.off
                    [] pos.whence = "End" -> ParentLen + pos.off
                    [] pos.whence = "Current" -> w.os + pos.off
    IN  IF target < 0 \/ target > I64Max
        THEN Result("err", w, 0, <<>>)
        ELSE Result("ok", [w EXCEPT !.os = target], target, <<>>)

OsFileRead(w, n) ==
    LET k == Min(n, Max(0, ParentLen - w.os))
    IN  Result("ok", [w EXCEPT !.os = w.os + k], k, ParentSlice(w.os, k))

\* SeekFrom::End arm of the window handles' seek: self.current -= from_end.unsigned_abs()
SeekFromEnd(hd, from_end) ==
    IF from_end > 0 THEN [st |-> "err", cur |-> hd.current]
    ELSE IF -from_end > hd.len THEN [st |-> "err", cur |-> hd.current]
    ELSE LET d == hd.current - (-from_end)
         IN  IF d < 0 /\ overflowChecks
             THEN [st |-> "panic", cur |-> hd.current]
             ELSE [st |-> "ok", cur |-> d % U64Mod]

SeekFromStart(hd, offset) ==
    IF offset > hd.len
    THEN [st |-> "err", cur |-> hd.current]
    ELSE [st |-> "ok", cur |-> offset]

SeekFromCurrent(hd, new) ==
    LET new_current == AsI64(hd.current) + new
    IN  IF new_current < 0 THEN [st |-> "err", cur |-> hd.current]
        ELSE IF new_current > AsI64(hd.len) THEN [st |-> "err", cur |-> hd.current]
        ELSE [st |-> "ok", cur |-> new_current]

\* impl Seek for PartitionFile
PartitionFileSeek(hd, pos) ==
    CASE pos.whence = "Start" -> SeekFromStart(hd, pos.off)
      [] pos.whence = "End" -> SeekFromEnd(hd, pos.off)
      [] pos.whence = "Current" -> SeekFromCurrent(hd, pos.off)

\* impl Seek for IsoFile and for SquashFsFile: the same text as PartitionFile's
IsoFileSeek(hd, pos) == PartitionFileSeek(hd, pos)
SquashFsFileSeek(hd, pos) == PartitionFileSeek(hd, pos)

\* seek on a handle: the handle's position moves, the parent file does not
HandleSeek(hd, pos) ==
    CASE hd.kind = "partition" -> PartitionFileSeek(hd, pos)
      [] hd.kind = "iso" -> IsoFileSeek(hd, pos)
      [] hd.kind = "squashfs" -> SquashFsFileSeek(hd, pos)
Moved(w, f, r) ==
    Result(r.st, [w EXCEPT !.hs[f].current = r.cur], IF r.st = "ok" THEN r.cur ELSE 0, <<>>)

Seek(w, f, pos) ==
    IF f = HostFile THEN OsFileSeek(w, pos) ELSE Moved(w, f, HandleSeek(w.hs[f], pos))

\* Seek::stream_position
StreamPosition(w, f) == Seek(w, f, SeekCurrent(0))

\* The steps of the read-at methods of trait File. Each takes the result of
\* the step before it and passes an error on (the `?` of the code); `pos` is
\* the position saved by stream_position.
Carry(r, pos) == [st |-> r.st, w |-> r.w, ret |-> r.ret, data |-> r.data, pos |-> pos]
SeekAt(p, f, at) ==
    IF p.st # "ok" THEN Carry(Fail(p), 0)
    ELSE Carry(Seek(p.w, f, SeekStart(at)), p.ret)
Finish(b, r) ==
    IF b.st # "ok" THEN Fail(b) ELSE Result("ok", b.w, r.ret, r.data)
SeekBack(r, f) ==
    IF r.st # "ok" THEN Fail(r) ELSE Finish(Seek(r.w, f, SeekStart(r.pos)), r)

RECURSIVE Read(_, _, _)

ReadAt(s, f, n) ==
    IF s.st # "ok" THEN Carry(Fail(s), 0) ELSE Carry(Read(s.w, f, n), s.pos)

\* File::read_buffer_at without the seek back to the saved position
ReadBufferAtNoRestore(w, f, n, at) == ReadAt(SeekAt(StreamPosition(w, f), f, at), f, n)

\* File::read_buffer_at: save the position, seek to `at`, read, seek back
ReadBufferAt(w, f, n, at) ==
    SeekBack(ReadAt(SeekAt(StreamPosition(w, f), f, at), f, n), f)

\* impl Read for PartitionFile reading the parent where it stands, with no
\* absolute seek and no restore
PartitionFileReadSequential(w, f, n) ==
    LET hd == w.hs[f]
        diff == hd.len - hd.current
        buf_len == IF n > diff % U64Mod THEN diff % U64Mod ELSE n
        r == OsFileRead(w, buf_len)
    IN  Result("ok", [r.w EXCEPT !.hs[f].current = (hd.current + r.ret) % U64Mod],
               r.ret, r.data)

\* self.current += bytes
Advance(r, f) ==
    IF r.st # "ok" THEN Fail(r)
    ELSE IF overflowChecks /\ r.w.hs[f].current + r.ret >= U64Mod
    THEN Result("panic", r.w, 0, <<>>)
    ELSE Result("ok", [r.w EXCEPT !.hs[f].current = (@ + r.ret) % U64Mod], r.ret, r.data)

\* impl Read for PartitionFile: clamp the buffer to len - current, read the
\* parent at start + current, advance by what was read.
PartitionFileRead(w, f, n) ==
    LET hd == w.hs[f]
        diff == hd.len - hd.current
        at == hd.start + hd.current
        buf_len == IF n > diff % U64Mod THEN diff % U64Mod ELSE n
    IN  IF overflowChecks /\ (diff < 0 \/ at >= U64Mod)
        THEN Result("panic", w, 0, <<>>)
        ELSE Advance(ReadBufferAt(w, HostFile, buf_len, at % U64Mod), f)

\* impl Read for IsoFile: the same text as PartitionFile's
IsoFileRead(w, f, n) == PartitionFileRead(w, f, n)

\* impl Read for SquashFsFile: todo!()
SquashFsFileRead(w, f, n) == Result("panic", w, 0, <<>>)

Read(w, f, n) ==
    IF f = HostFile THEN OsFileRead(w, n)
    ELSE CASE w.hs[f].kind = "partition" -> PartitionFileRead(w, f, n)
           [] w.hs[f].kind = "iso" -> IsoFileRead(w, f, n)
           [] w.hs[f].kind = "squashfs" -> SquashFsFileRead(w, f, n)

\* Read::read_exact: read until the buffer is full; a read of 0 bytes before
\* that is an UnexpectedEof error.
RECURSIVE ReadExactLoop(_, _, _, _)
ReadExactStep(r, f, remaining, acc) ==
    IF r.st # "ok" THEN Fail(r)
    ELSE IF r.ret = 0 THEN Result("err", r.w, 0, <<>>)
    ELSE ReadExactLoop(r.w, f, remaining - r.ret, acc \o r.data)
ReadExactLoop(w, f, remaining, acc) ==
    IF remaining = 0 THEN Result("ok", w, Len(acc), acc)
    ELSE ReadExactStep(Read(w, f, remaining), f, remaining, acc)

ReadExact(w, f, n) == ReadExactLoop(w, f, n, <<>>)

ReadExactAt(s, f, n) ==
    IF s.st # "ok" THEN Carry(Fail(s), 0) ELSE Carry(ReadExact(s.w, f, n), s.pos)

\* File::read_exact_bytes_at
ReadExactBytesAt(w, f, bytes, at) ==
    SeekBack(ReadExactAt(SeekAt(StreamPosition(w, f), f, at), f, bytes), f)

\* u16::from_le_bytes
FromLeBytes(r) ==
    IF r.st # "ok" THEN r ELSE Result("ok", r.w, r.data[1] + 256 * r.data[2], r.data)

\* File::read_le_u16_at
ReadLeU16At(w, f, at) ==
    FromLeBytes(SeekBack(ReadExactAt(SeekAt(StreamPosition(w, f), f, at), f, 2), f))

\* PartitionFileSystem::open_file: every path yields the slice (start, len)
PartitionOpenFile(start, len) ==
    [kind |-> "partition", start |-> start, len |-> len, current |-> 0]

\* IsoFileSystem::open_file: the record's extent (lba * 2048, data_length)
IsoOpenFile(record) ==
    [kind |-> "iso", start |-> record.lba * ISO_SECTOR_LEN,
     len |-> record.data_length, current |-> 0]

\* SquashFsFile: a length and a position
SquashFsOpenFile(len) ==
    [kind |-> "squashfs", start |-> 0, len |-> len, current |-> 0]

PartitionStarts == {0, 3}
IsoRecords == [lba : {1, 2}, data_length : {1, MaxLen}]

\* A handle that is not open: the host file is still used directly.
ClosedFile == [kind |-> "closed", start |-> 0, len |-> 0, current |-> 0]

\* Either the host file is used directly (no handle open), or it has been
\* moved into a filesystem and two handles are open on it: both over the same
\* partition slice, or over two records of one ISO image, or two SquashFS
\* files. In a filesystem the host file is at the position it was wrapped at.
HandleConfigs ==
    {[h \in Handles |-> PartitionOpenFile(s, l)] : s \in PartitionStarts, l \in {0, MaxLen}}
    \cup {[h \in Handles |->
              IsoOpenFile(IF h = 1 THEN [lba |-> 1, data_length |-> MaxLen] ELSE rec)] :
            rec \in IsoRecords}
    \cup {[h \in Handles |-> SquashFsOpenFile(MaxLen)]}
    \cup {[h \in Handles |-> ClosedFile]}

SeekArgs ==
    {SeekStart(a) : a \in 0..(MaxLen + 1)}
    \cup {SeekEnd(k) : k \in (-(MaxLen + 1))..1}
    \cup {SeekCurrent(d) : d \in (-(MaxLen + 1))..(MaxLen + 1)}

World == [os |-> osPos, hs |-> handles]

\* The positions the host file is driven to directly: near its start and
\* around its end.
HostPositions == 0..MaxBuf \cup {ParentLen - 1, ParentLen}

\* The positions a window handle is followed to: those of the window, and
\* the first ones below 2^WordBits, where a wrapped subtraction lands.
HandlePositions == 0..MaxLen \cup (U64Mod - MaxLen)..(U64Mod - 1)

Position(f) == IF f = HostFile THEN osPos ELSE handles[f].current

NoOp == [op |-> "none", f |-> HostFile, st |-> "ok", ret |-> 0, data |-> <<>>,
         n |-> 0, arg |-> SeekStart(0)]

\* One call: a panic ends the process, anything else leaves the world the
\* call made and records what it returned.
Call(op, f, n, arg, r) ==
    /\ ~aborted
    /\ f = HostFile => r.w.os \in HostPositions
    /\ f # HostFile => r.w.hs[f].current \in HandlePositions
    /\ IF r.st = "panic"
       THEN /\ aborted' = TRUE
            /\ UNCHANGED <<osPos, handles, last>>
       ELSE /\ osPos' = r.w.os
            /\ handles' = r.w.hs
            /\ last' = [op |-> op, f |-> f, st |-> r.st, ret |-> r.ret,
                        data |-> r.data, n |-> n, arg |-> arg]
            /\ UNCHANGED aborted
    /\ UNCHANGED <<overflowChecks, probe, disc, snd, tailVars>>

DoSeek(f, pos) == Call("seek", f, 0, pos, Seek(World, f, pos))

DoRead(f, n) == Call("read", f, n, SeekStart(0), Read(World, f, n))

DoReadBufferAt(f, n, at) ==
    Call("read_buffer_at", f, n, SeekStart(at), ReadBufferAt(World, f, n, at))

DoReadExactBytesAt(f, n, at) ==
    Call("read_exact_bytes_at", f, n, SeekStart(at), ReadExactBytesAt(World, f, n, at))

DoReadLeU16At(f, at) ==
    Call("read_le_u16_at", f, 2, SeekStart(at), ReadLeU16At(World, f, at))

IdleProbe == [called |-> FALSE]
IdleDisc == [called |-> FALSE]
IdleSnd == [pc |-> "idle"]
Idle == [pc |-> "idle"]
TailIdle == hdr = Idle /\ manifest = Idle /\ extract = Idle /\ vfs = Idle /\ bcd = Idle

FileInit ==
    /\ overflowChecks \in BOOLEAN
    /\ aborted = FALSE
    /\ handles \in HandleConfigs
    /\ osPos \in (IF handles[1].kind = "closed" THEN {0} ELSE {0, 1})
    /\ last = NoOp
    /\ probe = IdleProbe
    /\ disc = IdleDisc
    /\ snd = IdleSnd
    /\ TailIdle

\* The files in use: the host file alone, or the handles of the filesystem.
\* Handle 1 is driven through every operation; handle 2 is the other reader
\* on the shared file, which seeks absolutely and reads.
Active == IF handles[1].kind = "closed" THEN {HostFile} ELSE Handles
Driven == Active \ {2}
SeekArgsOf(f) == IF f = 2 THEN {SeekStart(a) : a \in 0..(MaxLen + 1)} ELSE SeekArgs

FileNext ==
    \/ \E f \in Active : \E pos \in SeekArgsOf(f) : DoSeek(f, pos)
    \/ \E f \in Active, n \in 0..MaxBuf : DoRead(f, n)
    \/ \E f \in Driven, n \in 0..MaxBuf, at \in 0..(MaxLen + 1) : DoReadBufferAt(f, n, at)
    \/ \E f \in Driven, n \in 0..MaxBuf, at \in 0..(MaxLen + 1) : DoReadExactBytesAt(f, n, at)
    \/ \E f \in Driven, at \in 0..(MaxLen + 1) : DoReadLeU16At(f, at)

SpecFile == FileInit /\ [][FileNext]_vars

(***************************************************************************)
(* Type detection (detect.rs): extension first, then content magics.       *)
(***************************************************************************)
Upper == <<"A", "B", "C", "D", "E", "F", "G", "H", "I", "J", "K", "L", "M",
           "N", "O", "P", "Q", "R", "S", "T", "U", "V", "W", "X", "Y", "Z">>
Lower == <<"a", "b", "c", "d", "e", "f", "g", "h", "i", "j", "k", "l", "m",
           "n", "o", "p", "q", "r", "s", "t", "u", "v", "w", "x", "y", "z">>

\* u8::to_ascii_lowercase on one character, and on a string
LowerChar(c) ==
    IF \E i \in 1..26 : Upper[i] = c
    THEN Lower[CHOOSE i \in 1..26 : Upper[i] = c]
    ELSE c
ToAsciiLowercase(str) == [i \in 1..Len(str) |-> LowerChar(str[i])]
UpperChar(c) ==
    IF \E i \in 1..26 : Lower[i] = c
    THEN Upper[CHOOSE i \in 1..26 : Lower[i] = c]
    ELSE c
ToUpper(str) == [i \in 1..Len(str) |-> UpperChar(str[i])]
Range(seq) == {seq[i] : i \in 1..Len(seq)}

None == [some |-> FALSE]
Some(v) == [some |-> TRUE, val |-> v]
\* Option::or
Or(a, b) == IF a.some THEN a ELSE b

\* Path::extension of a file name: the part after the last dot, none when
\* there is no dot, when the only dot leads the name, or for "..".
LastDot(name) ==
    IF \E i \in 1..Len(name) : name[i] = "."
    THEN CHOOSE i \in 1..Len(name) :
            name[i] = "." /\ \A j \in (i + 1)..Len(name) : name[j] # "."
    ELSE 0
PathExtension(name) ==
    IF name = <<".", ".">> \/ LastDot(name) <= 1
    THEN None
    ELSE Some(SubSeq(name, LastDot(name) + 1, Len(name)))

HDR_LEN == 202
HDR_HEADER == <<0, 1, 0, 4, 0, 68, 84, 83>>
ISO_MAGIC == <<67, 68, 48, 48, 49>>
ISO_MAGIC_LEN == 5
ISO_MAGIC_AT == 32769
SQUASHFS_MAGIC == <<104, 115, 113, 115>>
SQUASHFS_MAGIC_LEN == 4
MBR_LEN == 512
EXT234_SUPERBLOCK_LEN == 512 * 3

\* A probed file: a length and its bytes, zero except where a magic is planted.
Planted(file, magic, i) ==
    CASE magic = "squashfs" -> i < 4
      [] magic = "hdr" -> i < 9
      [] magic = "iso" -> i >= ISO_MAGIC_AT /\ i < ISO_MAGIC_AT + 5
      [] magic = "mbr" -> i \in {510, 511}
      [] magic = "ext" -> i \in {1080, 1081}
MagicByte(magic, i) ==
    CASE magic = "squashfs" -> SQUASHFS_MAGIC[i + 1]
      [] magic = "hdr" -> IF i = 0 THEN HDR_LEN ELSE HDR_HEADER[i]
      [] magic = "iso" -> ISO_MAGIC[i - ISO_MAGIC_AT + 1]
      [] magic = "mbr" -> IF i = 510 THEN 85 ELSE 170
      [] magic = "ext" -> IF i = 1080 THEN 83 ELSE 239
ByteAt(file, i) ==
    IF i = file.flip THEN 255
    ELSE IF \E g \in file.magics : Planted(file, g, i)
    THEN MagicByte(CHOOSE g \in file.magics :
                       Planted(file, g, i) /\ (g = "squashfs" \/ "squashfs" \notin file.magics
                                                 \/ ~Planted(file, "squashfs", i)), i)
    ELSE 0

\* File::read_exact_bytes_at on a probed file: all of the bytes, or an error
ProbeReadExactBytesAt(file, bytes, at) ==
    IF at + bytes <= file.len
    THEN Some([i \in 1..bytes |-> ByteAt(file, at + i - 1)])
    ELSE None
\* File::read_bytes
ProbeReadBytes(file, bytes) == ProbeReadExactBytesAt(file, bytes, 0)

\* slice::starts_with
StartsWith(bytes, prefix) ==
    Len(bytes) >= Len(prefix) /\ \A i \in 1..Len(prefix) : bytes[i] = prefix[i]

check_hdr_size(file) == file.len = HDR_LEN
check_hdr_magic(bytes) ==
    bytes[1] = HDR_LEN /\ StartsWith(SubSeq(bytes, 2, Len(bytes)), HDR_HEADER)
is_hdr_file(file) ==
    IF check_hdr_size(file)
    THEN LET bytes == ProbeReadBytes(file, HDR_LEN)
         IN  IF ~bytes.some THEN FALSE ELSE check_hdr_magic(bytes.val)
    ELSE FALSE

check_iso_magic(bytes) == StartsWith(bytes, ISO_MAGIC)
is_iso_file(file) ==
    LET buffer == ProbeReadExactBytesAt(file, ISO_MAGIC_LEN, ISO_MAGIC_AT)
    IN  IF buffer.some THEN check_iso_magic(buffer.val) ELSE FALSE

check_squashfs_magic(bytes) == StartsWith(bytes, SQUASHFS_MAGIC)
is_squashfs_file(file) ==
    LET buffer == ProbeReadBytes(file, SQUASHFS_MAGIC_LEN)
    IN  IF buffer.some THEN check_squashfs_magic(buffer.val) ELSE FALSE

check_mbr_magic(bytes) == bytes[510 + 1] = 85 /\ bytes[511 + 1] = 170
is_hdd_img_file(file) ==
    LET buffer == ProbeReadBytes(file, MBR_LEN)
    IN  IF buffer.some THEN check_mbr_magic(buffer.val) ELSE FALSE

check_ext234_magic(bytes) == bytes[1080 + 1] = 83 /\ bytes[1081 + 1] = 239
is_ext234_image_file(file) ==
    LET buffer == ProbeReadBytes(file, EXT234_SUPERBLOCK_LEN)
    IN  IF buffer.some THEN check_ext234_magic(buffer.val) ELSE FALSE

get_simple_file_type_from_extension(path) ==
    LET e == PathExtension(path)
    IN  IF ~e.some THEN None
        ELSE LET x == ToAsciiLowercase(e.val)
             IN  CASE x = <<"a", "u", "d">> -> Some("Aud")
                   [] x = <<"a", "u", "e">> -> Some("Aue")
                   [] x = <<"h", "d", "r">> -> Some("Hdr")
                   [] x = <<"s", "n", "d">> -> Some("Snd")
                   [] OTHER -> None

get_remaining_file_type_from_extension(path) ==
    LET e == PathExtension(path)
    IN  IF ~e.some THEN None
        ELSE IF ToAsciiLowercase(e.val) = <<"i", "s", "o">> THEN Some("Iso") ELSE None

try_get_simple_file_type_from_content(file) ==
    IF is_hdr_file(file) THEN Some("Hdr") ELSE None

\* the content probes with SquashFS tried before ISO
try_get_remaining_squashfs_first(file) ==
    IF is_squashfs_file(file) THEN Some("SquashFs")
    ELSE IF is_iso_file(file) THEN Some("Iso")
    ELSE IF is_hdd_img_file(file) THEN Some("HddImg")
    ELSE IF is_ext234_image_file(file) THEN Some("PartitionImg")
    ELSE None

try_get_remaining_file_type_from_content(file) ==
    IF is_iso_file(file) THEN Some("Iso")
    ELSE IF is_squashfs_file(file) THEN Some("SquashFs")
    ELSE IF is_hdd_img_file(file) THEN Some("HddImg")
    ELSE IF is_ext234_image_file(file) THEN Some("PartitionImg")
    ELSE None

\* SimpleFileType -> FileType keeps the kind
simple_file_type_to_file_type(t) == t

get_file_type(file, path) ==
    LET found ==
          Or(Or(Or(LET t == get_simple_file_type_from_extension(path)
                   IN  IF t.some THEN Some(simple_file_type_to_file_type(t.val)) ELSE None,
                   get_remaining_file_type_from_extension(path)),
                LET t == try_get_simple_file_type_from_content(file)
                IN  IF t.some THEN Some(simple_file_type_to_file_type(t.val)) ELSE None),
             try_get_remaining_file_type_from_content(file))
    IN  IF found.some
        THEN [ok |-> TRUE, kind |-> found.val]
        ELSE [ok |-> FALSE, error |-> "Could not recognize file type", path |-> path]

ProbeNames ==
    { <<"m", ".", "a", "u", "d">>, <<"M", ".", "A", "U", "D">>, <<"m", ".", "A", "u", "e">>,
      <<"m", ".", "h", "d", "r">>, <<"m", ".", "S", "N", "D">>, <<"d", ".", "i", "s", "o">>,
      <<"d", ".", "I", "s", "O">>, <<"a", ".", "h", "d", "r", ".", "i", "m", "g">>,
      <<"a", ".", "i", "m", "g", ".", "i", "s", "o">>, <<".", "a", "u", "d">>,
      <<"i", "s", "o">>, <<"d", ".">>, <<".", ".">>, <<>> }
ProbeLens == {0, 3, 4, HDR_LEN, 511, MBR_LEN, 1082, EXT234_SUPERBLOCK_LEN,
              ISO_MAGIC_AT + 4, ISO_MAGIC_AT + ISO_MAGIC_LEN}
ProbeMagics == {"hdr", "iso", "squashfs", "mbr", "ext"}
\* the offset of one byte overwritten with 0xFF (-1: none)
ProbeFlips == {-1, 0, 8, 511, 1080, ISO_MAGIC_AT + 4}
ProbeFiles == [len : ProbeLens, magics : SUBSET ProbeMagics, flip : ProbeFlips]

DetectInit ==
    /\ overflowChecks = FALSE
    /\ aborted = FALSE
    /\ osPos = 0
    /\ handles = [h \in Handles |-> ClosedFile]
    /\ last = NoOp
    /\ \E file \in ProbeFiles, path \in ProbeNames :
          probe = [file |-> file, path |-> path, called |-> FALSE, result |-> None]
    /\ disc = IdleDisc
    /\ snd = IdleSnd
    /\ TailIdle

GetFileType ==
    /\ ~probe.called
    /\ probe' = [probe EXCEPT !.called = TRUE,
                              !.result = get_file_type(probe.file, probe.path)]
    /\ UNCHANGED <<overflowChecks, aborted, osPos, handles, last, disc, snd, tailVars>>

DetectNext == GetFileType

SpecDetect == DetectInit /\ [][DetectNext]_vars

(***************************************************************************)
(* Disc recognition (cd.rs) over a directory listing.                      *)
(***************************************************************************)
MaxTop == 3
MaxDts == 4

\* the characters of names, in ASCII order
Ascii == <<".", "0", "1", "2", "3", "4", "5", "6", "7", "8", "9">> \o Upper \o Lower
Code(c) == CHOOSE i \in 1..Len(Ascii) : Ascii[i] = c
\* String's Ord: lexicographic by byte
StrLess(a, b) ==
    \E i \in 1..(Len(b)) :
        /\ \A j \in 1..(i - 1) : j <= Len(a) /\ a[j] = b[j]
        /\ (i = Len(a) + 1 \/ (i <= Len(a) /\ Code(a[i]) < Code(b[i])))

\* DirEntry::path keeps the name as listed; DirEntry::file_name lowercases it
entry_path(entry) == entry.name
file_name_as_listed(entry) == entry.name
file_name(entry) == ToAsciiLowercase(entry.name)
\* DirEntry::file_type
file_type(entry) == IF entry.kind = "Err" THEN None ELSE Some(entry.kind)
\* FileSystem::read_dir and FileSystem::open_file on an entry of the listing
read_dir(fs, entry) == IF entry.ok THEN Some(fs.dts) ELSE None
open_file(fs, entry) == IF entry.ok THEN Some(entry_path(entry)) ELSE None

RECURSIVE get_if_dts_cd_from(_, _, _, _, _)
get_if_dts_cd_from(fs, entries, i, dts_exe_found, dts_dir) ==
    IF i > Len(entries) THEN [ok |-> TRUE, val |-> None]
    ELSE LET entry == entries[i]
             t == file_type(entry)
             is_dts == t.some /\ t.val = "Directory" /\ file_name(entry) = <<"d", "t", "s">>
             is_exe == t.some /\ t.val = "File"
                         /\ file_name(entry) = <<"d", "t", "s", ".", "e", "x", "e">>
         IN  IF is_dts /\ ~read_dir(fs, entry).some THEN [ok |-> FALSE]
             ELSE LET dir == IF is_dts THEN read_dir(fs, entry) ELSE dts_dir
                      exe == dts_exe_found \/ is_exe
                  IN  IF exe /\ dir.some THEN [ok |-> TRUE, val |-> dir]
                      ELSE get_if_dts_cd_from(fs, entries, i + 1, exe, dir)
get_if_dts_cd(fs, entries) == get_if_dts_cd_from(fs, entries, 1, FALSE, None)

\* Regex r[1-9][0-3]?t5\.(aud|aue), is_match: a match anywhere in the name
RegexTail(name, j) ==
    /\ j + 5 <= Len(name)
    /\ SubSeq(name, j, j + 2) = <<"t", "5", ".">>
    /\ SubSeq(name, j + 3, j + 5) \in {<<"a", "u", "d">>, <<"a", "u", "e">>}
RegexMatchAt(name, i) ==
    /\ i + 1 <= Len(name)
    /\ name[i] = "r"
    /\ name[i + 1] \in {"1", "2", "3", "4", "5", "6", "7", "8", "9"}
    /\ \/ RegexTail(name, i + 2)
       \/ i + 2 <= Len(name) /\ name[i + 2] \in {"0", "1", "2", "3"} /\ RegexTail(name, i + 3)
RegexIsMatch(name) == \E i \in 1..Len(name) : RegexMatchAt(name, i)

\* the reels left in the order of the listing
Unsorted(reels) == reels
\* Vec::sort_by_key(|e| e.file_name()): stable
RECURSIVE SortByFileName(_)
Insert(sorted, e) ==
    LET k == Cardinality({i \in 1..Len(sorted) : ~StrLess(file_name(e), file_name(sorted[i]))})
    IN  SubSeq(sorted, 1, k) \o <<e>> \o SubSeq(sorted, k + 1, Len(sorted))
SortByFileName(reels) ==
    IF reels = <<>> THEN <<>>
    ELSE Insert(SortByFileName(SubSeq(reels, 1, Len(reels) - 1)), reels[Len(reels)])

IsTrailersMetadata(entry) ==
    /\ file_type(entry) = Some("File")
    /\ file_name(entry) \in {<<"r", "1", "4", "t", "r", "l", "r", ".", "t", "x", "t">>,
                            <<"r", "1", "4", ".", "t", "x", "t">>}
\* the trailer audio recognised under the name r14t5.aud only
IsTrailersAudioAud(entry) ==
    /\ file_type(entry) = Some("File")
    /\ ~IsTrailersMetadata(entry)
    /\ file_name(entry) \in {<<"r", "1", "4", "t", "5", ".", "a", "u", "d">>}
IsTrailersAudio(entry) ==
    /\ file_type(entry) = Some("File")
    /\ ~IsTrailersMetadata(entry)
    /\ file_name(entry) \in {<<"r", "1", "4", "t", "5", ".", "a", "u", "d">>,
                            <<"r", "1", "4", "t", "5", ".", "a", "u", "e">>}
IsReel(entry) ==
    /\ file_type(entry) = Some("File")
    /\ ~IsTrailersMetadata(entry) /\ ~IsTrailersAudio(entry)
    /\ RegexIsMatch(file_name(entry))
\* the last entry of the listing that satisfies P
LastSuch(entries, P(_)) ==
    IF \E i \in 1..Len(entries) : P(entries[i])
    THEN Some(entries[CHOOSE i \in 1..Len(entries) :
                 P(entries[i]) /\ \A j \in (i + 1)..Len(entries) : ~P(entries[j])])
    ELSE None

get_dts_files(fs, entries) ==
    LET trailers_metadata == LastSuch(entries, IsTrailersMetadata)
        trailers_audio == LastSuch(entries, IsTrailersAudio)
        reels == SortByFileName(SelectSeq(entries, IsReel))
        pair == trailers_metadata.some /\ trailers_audio.some
    IN  IF \E i \in 1..Len(reels) : ~open_file(fs, reels[i]).some THEN [ok |-> FALSE]
        ELSE IF pair /\ ~(open_file(fs, trailers_metadata.val).some
                            /\ open_file(fs, trailers_audio.val).some) THEN [ok |-> FALSE]
        ELSE [ok |-> TRUE,
              val |-> Some([reels |-> [i \in 1..Len(reels) |-> entry_path(reels[i])],
                            trailers |-> IF pair
                                         THEN Some([metadata |-> entry_path(trailers_metadata.val),
                                                    audio |-> entry_path(trailers_audio.val)])
                                         ELSE None])]

get_if_dts_cd_dir_entry(fs, entries) ==
    LET found == get_if_dts_cd(fs, entries)
    IN  IF ~found.ok THEN [ok |-> FALSE]
        ELSE IF found.val.some THEN get_dts_files(fs, found.val.val)
        ELSE [ok |-> TRUE, val |-> None]

TopMaster ==
    << [name |-> <<"d", "t", "s", ".", "e", "x", "e">>, kind |-> "File", ok |-> TRUE],
       [name |-> <<"d", "t", "s">>, kind |-> "Directory", ok |-> TRUE],
       [name |-> <<"D", "T", "S", ".", "E", "X", "E">>, kind |-> "File", ok |-> TRUE],
       [name |-> <<"D", "T", "S">>, kind |-> "Directory", ok |-> TRUE],
       [name |-> <<"d", "t", "s">>, kind |-> "File", ok |-> TRUE],
       [name |-> <<"d", "t", "s", ".", "e", "x", "e">>, kind |-> "Directory", ok |-> TRUE],
       [name |-> <<"D", "t", "s">>, kind |-> "Directory", ok |-> FALSE],
       [name |-> <<"d", "t", "s", ".", "e", "x", "e">>, kind |-> "Err", ok |-> TRUE] >>
DtsMaster ==
    << [name |-> <<"r", "0", "1", "t", "5", ".", "a", "u", "d">>, kind |-> "File", ok |-> TRUE],
       [name |-> <<"r", "0", "2", "t", "5", ".", "a", "u", "d">>, kind |-> "File", ok |-> TRUE],
       [name |-> <<"r", "1", "t", "5", ".", "a", "u", "d">>, kind |-> "File", ok |-> TRUE],
       [name |-> <<"R", "1", "0", "T", "5", ".", "A", "U", "E">>, kind |-> "File", ok |-> TRUE],
       [name |-> <<"r", "1", "4", ".", "t", "x", "t">>, kind |-> "File", ok |-> TRUE],
       [name |-> <<"r", "1", "4", "t", "5", ".", "a", "u", "d">>, kind |-> "File", ok |-> TRUE],
       [name |-> <<"r", "1", "4", "t", "r", "l", "r", ".", "t", "x", "t">>, kind |-> "File", ok |-> TRUE],
       [name |-> <<"r", "2", "t", "5", ".", "a", "u", "d">>, kind |-> "File", ok |-> TRUE],
       [name |-> <<"r", "3", "t", "5", ".", "a", "u", "d">>, kind |-> "File", ok |-> FALSE],
       [name |-> <<"r", "4", "t", "5", ".", "a", "u", "d">>, kind |-> "Directory", ok |-> TRUE],
       [name |-> <<"x", "r", "5", "t", "5", ".", "a", "u", "d", "i", "o">>, kind |-> "File", ok |-> TRUE],
       [name |-> <<"r", "1", "4", "t", "5", ".", "a", "u", "e">>, kind |-> "File", ok |-> TRUE] >>
Reverse(seq) == [i \in 1..Len(seq) |-> seq[Len(seq) + 1 - i]]
RECURSIVE Pick(_, _)
Pick(seq, idx) ==
    IF idx = {} THEN <<>>
    ELSE LET m == CHOOSE i \in idx : \A j \in idx : i <= j
         IN  <<seq[m]>> \o Pick(seq, idx \ {m})
\* the listings of at most k entries drawn from the master, in its order or reversed
Listings(master, k) ==
    UNION { {Pick(master, idx), Pick(Reverse(master), idx)} :
            idx \in {x \in SUBSET (1..Len(master)) : Cardinality(x) <= k} }
TopListings == Listings(TopMaster, MaxTop)
DtsListings == Listings(DtsMaster, MaxDts)
PlainTops == {Pick(TopMaster, {1, 2}), Pick(Reverse(TopMaster), {5, 6})}
PlainDts == {<<>>, Pick(DtsMaster, {3})}
Discs ==
    [top : TopListings, dts : PlainDts] \cup [top : PlainTops, dts : DtsListings]

CdInit ==
    /\ overflowChecks = FALSE
    /\ aborted = FALSE
    /\ osPos = 0
    /\ handles = [h \in Handles |-> ClosedFile]
    /\ last = NoOp
    /\ probe = IdleProbe
    /\ \E fs \in Discs : disc = [fs |-> fs, called |-> FALSE, result |-> [ok |-> FALSE]]
    /\ snd = IdleSnd
    /\ TailIdle

GetIfDtsCdDirEntry ==
    /\ ~disc.called
    /\ disc' = [disc EXCEPT !.called = TRUE,
                            !.result = get_if_dts_cd_dir_entry(disc.fs, disc.fs.top)]
    /\ UNCHANGED <<overflowChecks, aborted, osPos, handles, last, probe, snd, tailVars>>

CdNext == GetIfDtsCdDirEntry

SpecCd == CdInit /\ [][CdNext]_vars

(***************************************************************************)
(* SND header (metadata.rs, snd.rs, bcd.rs): revision and BCD offsets.     *)
(***************************************************************************)
MaxPatch == 1
SND_HEADER_LEN == 92
SND_HEADER_LEN_WITH_ENCRYPTION == SND_HEADER_LEN + 3

\* bytes[i] of a Rust slice
At(bytes, i) == bytes[i + 1]

\* Revision::from_header taking the '*' marker from byte 61
from_header_marker_at_61(bytes) ==
    IF At(bytes, 61) = 42
    THEN IF /\ At(bytes, 18) = 32 /\ At(bytes, 31) = 32 /\ At(bytes, 47) = 32
            /\ At(bytes, 50) = 68 /\ At(bytes, 51) = 32 /\ At(bytes, 55) = 32
            /\ At(bytes, 59) = 32 /\ At(bytes, 65) = 0 /\ At(bytes, 66) = 0
         THEN "XDA" ELSE "XD"
    ELSE "H1"

from_header(bytes) ==
    IF At(bytes, 60) = 42
    THEN IF /\ At(bytes, 18) = 32
            /\ At(bytes, 31) = 32
            /\ At(bytes, 47) = 32
            /\ At(bytes, 50) = 68
            /\ At(bytes, 51) = 32
            /\ At(bytes, 55) = 32
            /\ At(bytes, 59) = 32
            /\ At(bytes, 65) = 0
            /\ At(bytes, 66) = 0
         THEN "XDA"
         ELSE "XD"
    ELSE "H1"

Err == [ok |-> FALSE]
Ok(v) == [ok |-> TRUE, val |-> v]

\* bcd_to_decimal with the two nibbles taken the other way round
bcd_to_decimal_swapped(value) ==
    LET tens == value % 16
        units == value \div 16
    IN  IF tens >= 10 \/ units >= 10 THEN Err ELSE Ok(tens * 10 + units)

\* bcd_to_decimal letting a tens nibble of 10 through
bcd_to_decimal_tens_upto_10(value) ==
    LET tens == value \div 16
        units == value % 16
    IN  IF tens > 10 \/ units >= 10 THEN Err ELSE Ok(tens * 10 + units)

bcd_to_decimal(value) ==
    LET tens == value \div 16
        units == value % 16
    IN  IF tens >= 10 \/ units >= 10 THEN Err ELSE Ok(tens * 10 + units)

\* decimal_to_bcd leaving the value as it is
decimal_to_bcd_unpacked(value) == IF value > 99 THEN Err ELSE Ok(value)

decimal_to_bcd(value) ==
    IF value > 99 THEN Err
    ELSE LET tens == value \div 10
             units == value % 10
         IN  Ok(tens * 16 + units)

get_offset(bytes) ==
    LET frames == bcd_to_decimal(At(bytes, 0))
        raw_seconds == At(bytes, 1)
        seconds == bcd_to_decimal(IF raw_seconds > 96 THEN raw_seconds - 96 ELSE raw_seconds)
        raw_minutes == At(bytes, 2)
        minutes == bcd_to_decimal(IF raw_minutes > 96 THEN raw_minutes - 96 ELSE raw_minutes)
        hours == bcd_to_decimal(At(bytes, 3))
    IN  IF ~frames.ok \/ ~seconds.ok \/ ~minutes.ok \/ ~hours.ok THEN Err
        ELSE IF frames.val = 0 /\ seconds.val = 0 /\ minutes.val = 0 /\ hours.val = 0
        THEN Ok(None)
        ELSE Ok(Some([frames |-> frames.val, seconds |-> seconds.val,
                      minutes |-> minutes.val, hours |-> hours.val]))

\* the four bytes insert_offset appends to the buffer
insert_offset(offset) ==
    IF offset.some
    THEN LET o == offset.val
             f == decimal_to_bcd(o.frames)
             s == decimal_to_bcd(o.seconds)
             m == decimal_to_bcd(o.minutes)
             h == decimal_to_bcd(o.hours)
         IN  IF ~f.ok \/ ~s.ok \/ ~m.ok \/ ~h.ok THEN Err
             ELSE Ok(<<f.val, s.val, m.val, h.val>>)
    ELSE Ok(<<0, 0, 0, 0>>)

\* the header bytes the revision reads, two it does not, and the byte values it tests
RevisionBytes == {60, 18, 31, 47, 50, 51, 55, 59, 65, 66}
PatchedBytes == RevisionBytes \cup {0, 94}
HeaderAlphabet == {0, 32, 42, 68}
ZeroHeader == [i \in 1..SND_HEADER_LEN_WITH_ENCRYPTION |-> 0]
XdaHeader ==
    [i \in 1..SND_HEADER_LEN_WITH_ENCRYPTION |->
        CASE i - 1 = 60 -> 42
          [] i - 1 \in {18, 31, 47, 51, 55, 59} -> 32
          [] i - 1 = 50 -> 68
          [] OTHER -> 0]
Patches(k) ==
    UNION { [idx -> HeaderAlphabet] : idx \in {x \in SUBSET PatchedBytes : Cardinality(x) <= k} }
Patch(bytes, ch) ==
    [i \in 1..Len(bytes) |-> IF i - 1 \in DOMAIN ch THEN ch[i - 1] ELSE bytes[i]]
\* every byte the revision does not read set to b
Fill(bytes, b) ==
    [i \in 1..Len(bytes) |-> IF i - 1 \in RevisionBytes THEN bytes[i] ELSE b]
Headers == {Patch(base, ch) : base \in {ZeroHeader, XdaHeader}, ch \in Patches(MaxPatch)}
Variants(bytes) ==
    {Patch(bytes, ch) : ch \in Patches(1)} \cup {Fill(bytes, b) : b \in HeaderAlphabet \cup {255}}

OffsetFields == {0, 1, 10, 59, 60, 61, 99, 100}
Offsets ==
    {None} \cup {Some(o) : o \in [frames : OffsetFields, seconds : OffsetFields,
                                   minutes : OffsetFields, hours : OffsetFields]}

SndIdle(mode) ==
    [mode |-> mode, pc |-> "start", first |-> ZeroHeader, second |-> ZeroHeader,
     revisions |-> <<>>, offset |-> None, bytes |-> Err, decoded |-> Err]

SndInit ==
    /\ overflowChecks = FALSE
    /\ aborted = FALSE
    /\ osPos = 0
    /\ handles = [h \in Handles |-> ClosedFile]
    /\ last = NoOp
    /\ probe = IdleProbe
    /\ disc = IdleDisc
    /\ TailIdle
    /\ \/ \E a \in Headers : \E b \in Variants(a) :
             snd = [SndIdle("header") EXCEPT !.first = a, !.second = b]
       \/ \E o \in Offsets : snd = [SndIdle("offset") EXCEPT !.offset = o]

\* the revision of each of the two headers
RevisionFromHeader ==
    /\ snd.mode = "header" /\ snd.pc = "start"
    /\ snd' = [snd EXCEPT !.pc = "done",
                          !.revisions = <<from_header(snd.first), from_header(snd.second)>>]
    /\ UNCHANGED <<overflowChecks, aborted, osPos, handles, last, probe, disc, tailVars>>

InsertOffset ==
    /\ snd.mode = "offset" /\ snd.pc = "start"
    /\ snd' = [snd EXCEPT !.pc = "encoded", !.bytes = insert_offset(snd.offset)]
    /\ UNCHANGED <<overflowChecks, aborted, osPos, handles, last, probe, disc, tailVars>>

GetOffset ==
    /\ snd.mode = "offset" /\ snd.pc = "encoded" /\ snd.bytes.ok
    /\ snd' = [snd EXCEPT !.pc = "decoded", !.decoded = get_offset(snd.bytes.val)]
    /\ UNCHANGED <<overflowChecks, aborted, osPos, handles, last, probe, disc, tailVars>>

SndNext == RevisionFromHeader \/ InsertOffset \/ GetOffset

SpecSnd == SndInit /\ [][SndNext]_vars

(***************************************************************************)
(* SND header encoder (snd.rs): encode_header and its helpers.             *)
(***************************************************************************)
\* iter::repeat_n(fill, n)
RepeatN(fill, n) == [i \in 1..n |-> fill]

\* insert_max: the bytes it appends to the buffer
insert_max(value, fill, max) ==
    IF Len(value) >= max THEN SubSeq(value, 1, max)
    ELSE RepeatN(fill, max - Len(value))

\* insert_optional: the bytes it appends to the buffer
insert_optional(value, fill, len) ==
    IF value.some THEN <<32>> \o insert_max(value.val, fill, len)
    ELSE RepeatN(fill, len + 1)

\* u16::to_le_bytes
ToLeBytes(id) == <<id % 256, id \div 256>>

\* the bytes ahead of the studio field
EncodeTitleBlock(data) ==
    IF data.xd.some
    THEN (IF data.xd.val.xda.some
          THEN LET xda == data.xd.val.xda.val
               IN  insert_max(data.title, 32, 18)
                     \o insert_optional(xda.source, 32, 12)
                     \o insert_optional(xda.mix, 32, 15)
                     \o insert_optional(xda.lfe_level, 32, 2)
                     \o (IF xda.lfe_level.some THEN <<68>> ELSE <<32>>)
                     \o insert_optional(xda.surround_delay, 32, 3)
                     \o insert_optional(xda.filters, 32, 3)
                     \o <<32>>
          ELSE insert_max(data.title, 0, 60))
         \o (IF data.xd.val.language.some
             THEN <<42>> \o insert_max(data.xd.val.language.val, 0, 4)
             ELSE RepeatN(0, 5))
         \o <<0, 0, 0>>
    ELSE insert_max(data.title, 0, 67)

\* the fixed fields from the studio to the track count
EncodeFixedBlock(data) ==
    insert_optional(data.studio, 0, 4)
      \o <<0, 0, 0>>
      \o <<data.optical_backup, 0, 0>>
      \o <<data.reel, 0>>
      \o ToLeBytes(data.id)
      \o <<data.tracks, 0>>

\* the two offsets appended, or the error of insert_offset
AppendOffsets(buffer, start, end) ==
    IF ~start.ok \/ ~end.ok THEN Err ELSE Ok(buffer \o start.val \o end.val)

encode_header(data) ==
    AppendOffsets(EncodeTitleBlock(data) \o EncodeFixedBlock(data),
                  insert_offset(data.start_offset), insert_offset(data.end_offset))

get_generic_trailers_header ==
    [revision |-> "XD", snd_type |-> "Trailer", id |-> 1045, reel |-> 14,
     title |-> <<84, 114, 97, 105, 108, 101, 114, 115, 32, 82, 101, 101, 108, 32, 49, 52>>, studio |-> Some(<<110, 111, 110, 101>>),
     optical_backup |-> 1, tracks |-> 5, encryption_key |-> None,
     xd |-> Some([language |-> Some(<<69, 78, 71>>), xda |-> None]),
     start_offset |-> None, end_offset |-> None]

\* a string of n bytes
Text(n) == [i \in 1..n |-> 97 + (i % 26)]
\* an optional string for a field of `len` bytes: absent, empty, shorter, equal, longer
Shapes == {"absent", "empty", "shorter", "equal", "longer"}
Shaped(shape, len) ==
    CASE shape = "absent" -> None
      [] shape = "empty" -> Some(<<>>)
      [] shape = "shorter" -> Some(Text(len - 1))
      [] shape = "equal" -> Some(Text(len))
      [] shape = "longer" -> Some(Text(len + 1))
XdaOf(a, b, c, d, e) ==
    [source |-> Shaped(a, 12), mix |-> Shaped(b, 15), lfe_level |-> Shaped(c, 2),
     surround_delay |-> Shaped(d, 3), filters |-> Shaped(e, 3)]
\* the five descriptive strings all of one shape, or all equal to their field but one
XdaRecords ==
    {XdaOf(x, x, x, x, x) : x \in Shapes}
      \cup {XdaOf(x, "equal", "equal", "equal", "equal") : x \in Shapes}
      \cup {XdaOf("equal", x, "equal", "equal", "equal") : x \in Shapes}
      \cup {XdaOf("equal", "equal", x, "equal", "equal") : x \in Shapes}
      \cup {XdaOf("equal", "equal", "equal", x, "equal") : x \in Shapes}
      \cup {XdaOf("equal", "equal", "equal", "equal", x) : x \in Shapes}
XdRecords ==
    {None} \cup {Some([language |-> Shaped(l, 4), xda |-> None]) : l \in Shapes}
      \cup {Some([language |-> Shaped(l, 4), xda |-> Some(a)]) : l \in Shapes, a \in XdaRecords}
TitleField(xd) == IF ~xd.some THEN 67 ELSE IF xd.val.xda.some THEN 18 ELSE 60
RevisionOfRecord(xd) == IF ~xd.some THEN "H1" ELSE IF xd.val.xda.some THEN "XDA" ELSE "XD"
EncodedOffsets ==
    {None, Some([frames |-> 29, seconds |-> 59, minutes |-> 1, hours |-> 0]),
     Some([frames |-> 100, seconds |-> 0, minutes |-> 0, hours |-> 0])}
SndRecords ==
    {get_generic_trailers_header} \cup
    {[revision |-> RevisionOfRecord(xd), snd_type |-> "Feature", id |-> 513, reel |-> 1,
      title |-> Text(t), studio |-> Shaped(st, 4), optical_backup |-> 129, tracks |-> 5,
      encryption_key |-> None, xd |-> xd, start_offset |-> so, end_offset |-> None] :
        xd \in XdRecords, st \in Shapes, so \in EncodedOffsets,
        t \in {0, 1, 18, 60, 67, 68}}

EncodeInit ==
    /\ overflowChecks = FALSE
    /\ aborted = FALSE
    /\ osPos = 0
    /\ handles = [h \in Handles |-> ClosedFile]
    /\ last = NoOp
    /\ probe = IdleProbe
    /\ disc = IdleDisc
    /\ \E data \in SndRecords : snd = [pc |-> "start", data |-> data, encoded |-> Err]
    /\ TailIdle

EncodeHeader ==
    /\ snd.pc = "start"
    /\ snd' = [snd EXCEPT !.pc = "encoded", !.encoded = encode_header(snd.data)]
    /\ UNCHANGED <<overflowChecks, aborted, osPos, handles, last, probe, disc, tailVars>>

EncodeNext == EncodeHeader

SpecEncode == EncodeInit /\ [][EncodeNext]_vars

(***************************************************************************)
(* Trailers manifest codec (trailers.rs).                                  *)
(***************************************************************************)
MaxEntries == 2
MaxLines == 3

Digits == <<"0", "1", "2", "3", "4", "5", "6", "7", "8", "9">>
IsDigit(c) == \E i \in 1..10 : Digits[i] = c
DigitValue(c) == (CHOOSE i \in 1..10 : Digits[i] = c) - 1
\* u8::is_ascii_whitespace and char::is_alphanumeric
IsAsciiWhitespace(c) == c \in {" ", "\t", "\n", "\r", "\f"}
IsAlphanumeric(c) == IsDigit(c) \/ (\E i \in 1..26 : Upper[i] = c \/ Lower[i] = c)

\* Display of an unsigned integer
RECURSIVE ToDecimal(_)
ToDecimal(n) ==
    IF n < 10 THEN <<Digits[n + 1]>> ELSE ToDecimal(n \div 10) \o <<Digits[(n % 10) + 1]>>

\* str::parse of an unsigned integer of the given width: an optional '+',
\* then one or more digits, the value within the width
RECURSIVE ParseDigits(_, _, _)
ParseDigits(digits, acc, max) ==
    IF digits = <<>> THEN Ok(acc)
    ELSE IF ~IsDigit(Head(digits)) THEN Err
    ELSE IF acc * 10 + DigitValue(Head(digits)) > max THEN Err
    ELSE ParseDigits(Tail(digits), acc * 10 + DigitValue(Head(digits)), max)
ParseUnsigned(token, bits) ==
    LET digits == IF token # <<>> /\ Head(token) = "+" THEN Tail(token) ELSE token
    IN  IF digits = <<>> THEN Err ELSE ParseDigits(digits, 0, 2 ^ bits - 1)
\* id is a u16; start (u32), end and offset (usize) are at least as wide as the model's word
U16Bits == 16
WideBits == Max(U16Bits, WordBits)

get_header ==
    <<";", "N", "A", "M", "E", " ", " ", " ", " ", " ", " ", " ", " ", " ", " ", " ", "S", "E", "R", "I", "A", "L", " ", " ", "S", "T", "A", "R", "T", " ", " ", " ", "E", "N", "D", " ", " ", " ", " ", " ", "O", "F", "F", "S", "E", "T", "\r", "\n">>
      \o <<";", "-", "-", "-", "-", " ", " ", " ", " ", " ", " ", " ", " ", " ", " ", " ", "-", "-", "-", "-", "-", "-", " ", " ", "-", "-", "-", "-", "-", " ", " ", " ", "-", "-", "-", " ", " ", " ", " ", " ", "-", "-", "-", "-", "-", "-", "\r", "\n">>

entry_to_line(entry) ==
    entry.title \o <<"\t">> \o ToDecimal(entry.id) \o <<"\t">> \o ToDecimal(entry.start)
      \o <<"\t">> \o ToDecimal(entry.end) \o <<"\t">> \o ToDecimal(entry.offset)
      \o <<"\r", "\n">>

\* the bytes encode_trailers_to_txt_file writes
RECURSIVE EntryLines(_)
EntryLines(entries) ==
    IF entries = <<>> THEN <<>>
    ELSE entry_to_line(Head(entries)) \o EntryLines(Tail(entries))
encode_trailers_to_txt_file(data) == get_header \o EntryLines(data.entries)

\* BufRead::lines: split at "\n", dropping it and a "\r" right before it
FirstNewline(text) ==
    IF \E i \in 1..Len(text) : text[i] = "\n"
    THEN CHOOSE i \in 1..Len(text) : text[i] = "\n" /\ \A j \in 1..(i - 1) : text[j] # "\n"
    ELSE 0
StripCr(line) ==
    IF line # <<>> /\ line[Len(line)] = "\r" THEN SubSeq(line, 1, Len(line) - 1) ELSE line
RECURSIVE read_lines(_)
read_lines(text) ==
    IF text = <<>> THEN <<>>
    ELSE IF FirstNewline(text) = 0 THEN <<text>>
    ELSE <<StripCr(SubSeq(text, 1, FirstNewline(text) - 1))>>
           \o read_lines(SubSeq(text, FirstNewline(text) + 1, Len(text)))

\* str::split_ascii_whitespace
FirstSuch(str, P(_)) ==
    IF \E i \in 1..Len(str) : P(str[i])
    THEN CHOOSE i \in 1..Len(str) : P(str[i]) /\ \A j \in 1..(i - 1) : ~P(str[j])
    ELSE Len(str) + 1
NotAsciiWhitespace(c) == ~IsAsciiWhitespace(c)
RECURSIVE SplitAsciiWhitespace(_)
TokensFrom(str) ==
    <<SubSeq(str, 1, FirstSuch(str, IsAsciiWhitespace) - 1)>>
      \o SplitAsciiWhitespace(SubSeq(str, FirstSuch(str, IsAsciiWhitespace), Len(str)))
SplitAsciiWhitespace(str) ==
    IF FirstSuch(str, NotAsciiWhitespace) > Len(str) THEN <<>>
    ELSE TokensFrom(SubSeq(str, FirstSuch(str, NotAsciiWhitespace), Len(str)))

ParseIntError == [ok |-> FALSE, error |-> "ParseIntError"]
EntryOf(title, id, start, end, offset) ==
    IF ~id.ok \/ ~start.ok \/ ~end.ok \/ ~offset.ok THEN ParseIntError
    ELSE Ok(Some([title |-> title, id |-> id.val, start |-> start.val,
                  end |-> end.val, offset |-> offset.val]))
EntryOfTokens(tokens) ==
    EntryOf(tokens[1], ParseUnsigned(tokens[2], U16Bits), ParseUnsigned(tokens[3], WideBits),
            ParseUnsigned(tokens[4], WideBits), ParseUnsigned(tokens[5], WideBits))
TokensToEntry(tokens, line, position, path) ==
    IF Len(tokens) = 5 THEN EntryOfTokens(tokens)
    ELSE IF ~(\A i \in 1..Len(line) : IsAlphanumeric(line[i])) THEN Ok(None)
    ELSE [ok |-> FALSE, error |-> "ParseTrailerMetadataTxtError",
          file |-> path, line |-> line, position |-> position + 2]
line_to_entry(line, position, path) ==
    TokensToEntry(SplitAsciiWhitespace(line), line, position, path)

\* decode_trailers_from_txt_file: the loop over the enumerated lines
RECURSIVE DecodeLines(_, _, _, _)
DecodeEntry(entry, lines, i, entries, path) ==
    IF ~entry.ok THEN entry
    ELSE DecodeLines(lines, i + 1,
                     IF entry.val.some THEN Append(entries, entry.val.val) ELSE entries, path)
DecodeLines(lines, i, entries, path) ==
    IF i >= Len(lines) THEN Ok([entries |-> entries])
    ELSE IF lines[i + 1] # <<>> /\ lines[i + 1][1] = ";"
    THEN DecodeLines(lines, i + 1, entries, path)
    ELSE DecodeEntry(line_to_entry(lines[i + 1], i, path), lines, i, entries, path)
decode_trailers_from_txt_file(text, path) == DecodeLines(read_lines(text), 0, <<>>, path)

ManifestPath == <<"r", "1", "4", "t", "r", "l", "r", ".", "t", "x", "t">>
\* titles as decode_snd_header yields them: trimmed, possibly with inner spaces or empty
ManifestTitles == {<<"A">>, <<"B", "7">>, <<"A", " ", "B">>, <<>>, <<";", "A">>}
ManifestEntries ==
    [title : ManifestTitles, id : {0, 2 ^ U16Bits - 1}, start : {0}, end : {0, 12},
     offset : {92}]
RECURSIVE SeqsUpTo(_, _)
SeqsUpTo(set, n) ==
    IF n = 0 THEN {<<>>}
    ELSE SeqsUpTo(set, n - 1)
           \cup {Append(q, x) : q \in {z \in SeqsUpTo(set, n - 1) : Len(z) = n - 1}, x \in set}
\* lines of a manifest to decode: comments, entries, stray and malformed lines
ManifestLines == {<<";", "c">>,
                   <<"A", "\t", "1", "\t", "0", "\t", "1", "2", "\t", "9", "2">>,
                   <<"B", " ", "2", " ", "+", "0", " ", "3", " ", "9", "2">>,
                   <<"a", "b", "c">>,
                   <<>>,
                   <<"a", " ", "b">>,
                   <<"a", "-", "b">>,
                   <<"A", "\t", "x", "\t", "0", "\t", "1", "\t", "9", "2">>,
                   <<"A", "\t", "6", "5", "5", "3", "6", "\t", "0", "\t", "1", "\t", "9", "2">>,
                   <<" ", ";", "x">>}
RECURSIVE JoinLines(_)
JoinLines(lines) ==
    IF lines = <<>> THEN <<>> ELSE Head(lines) \o <<"\r", "\n">> \o JoinLines(Tail(lines))

ManifestInit ==
    /\ overflowChecks = FALSE
    /\ aborted = FALSE
    /\ osPos = 0
    /\ handles = [h \in Handles |-> ClosedFile]
    /\ last = NoOp
    /\ probe = IdleProbe
    /\ disc = IdleDisc
    /\ snd = IdleSnd
    /\ hdr = Idle /\ extract = Idle /\ vfs = Idle /\ bcd = Idle
    /\ \/ \E entries \in SeqsUpTo(ManifestEntries, MaxEntries) :
             manifest = [pc |-> "start", given |-> "entries", entries |-> entries,
                         lines |-> <<>>, text |-> <<>>, decoded |-> Err]
       \/ \E lines \in SeqsUpTo(ManifestLines, MaxLines) :
             manifest = [pc |-> "encoded", given |-> "text", entries |-> <<>>,
                         lines |-> lines, text |-> JoinLines(lines), decoded |-> Err]

EncodeTrailersToTxtFile ==
    /\ manifest.pc = "start"
    /\ manifest' = [manifest EXCEPT
                      !.pc = "encoded",
                      !.text = encode_trailers_to_txt_file([entries |-> manifest.entries])]
    /\ UNCHANGED <<overflowChecks, aborted, osPos, handles, last, probe, disc, snd,
                   hdr, extract, vfs, bcd>>

DecodeTrailersFromTxtFile ==
    /\ manifest.pc = "encoded"
    /\ manifest' = [manifest EXCEPT
                      !.pc = "decoded",
                      !.decoded = decode_trailers_from_txt_file(manifest.text, ManifestPath)]
    /\ UNCHANGED <<overflowChecks, aborted, osPos, handles, last, probe, disc, snd,
                   hdr, extract, vfs, bcd>>

ManifestNext == EncodeTrailersToTxtFile \/ DecodeTrailersFromTxtFile

SpecManifest == ManifestInit /\ [][ManifestNext]_vars

(***************************************************************************)
(* Trailer extraction (extract.rs): Files::convert_to_trailer_file.        *)
(***************************************************************************)
MaxSelected == 3
FRAME_LEN == 3675

\* the bytes of a source SND file: the header, the encryption tail, the audio
SourceData(source) == [i \in 1..source.len |-> (i + source.id) % 256]
\* &data[92..]
Payload(source) == SubSeq(SourceData(source), SND_HEADER_LEN + 1, source.len)

\* the loop over the selected entries: the file written so far, the manifest
\* entries so far, the running offset, and where each payload was written
RECURSIVE ConvertLoop(_, _, _, _, _)
ConvertLoop(selected, snd_file, entries, offset, starts) ==
    IF selected = <<>>
    THEN [snd_file |-> snd_file, entries |-> entries, starts |-> starts]
    ELSE ConvertLoop(Tail(selected),
                     snd_file \o Payload(Head(selected)),
                     Append(entries, [title |-> Head(selected).title,
                                      id |-> Head(selected).id,
                                      start |-> 0,
                                      end |-> Len(Payload(Head(selected))) \div FRAME_LEN,
                                      offset |-> offset]),
                     offset + Len(Payload(Head(selected))),
                     Append(starts, Len(snd_file)))

\* the files convert_to_trailer_file leaves behind
Converted(written) ==
    [snd_file |-> written.snd_file, entries |-> written.entries, starts |-> written.starts,
     txt_file |-> encode_trailers_to_txt_file([entries |-> written.entries])]
convert_to_trailer_file(selected) ==
    Converted(ConvertLoop(selected, encode_header(get_generic_trailers_header).val,
                          <<>>, 92, <<>>))

\* trailer sources: decoded SND files (at least 95 bytes) of reel 14
TrailerSources ==
    {[title |-> <<"A">>, id |-> 1, len |-> SND_HEADER_LEN_WITH_ENCRYPTION],
     [title |-> <<"B">>, id |-> 2, len |-> SND_HEADER_LEN_WITH_ENCRYPTION + 1],
     [title |-> <<"C">>, id |-> 3, len |-> SND_HEADER_LEN + FRAME_LEN - 1],
     [title |-> <<"D">>, id |-> 4, len |-> SND_HEADER_LEN + FRAME_LEN],
     [title |-> <<"E">>, id |-> 5, len |-> SND_HEADER_LEN + 2 * FRAME_LEN + 1],
     [title |-> <<"F">>, id |-> 6, len |-> SND_HEADER_LEN + 2 * FRAME_LEN - 1]}

ExtractInit ==
    /\ overflowChecks = FALSE
    /\ aborted = FALSE
    /\ osPos = 0
    /\ handles = [h \in Handles |-> ClosedFile]
    /\ last = NoOp
    /\ probe = IdleProbe
    /\ disc = IdleDisc
    /\ snd = IdleSnd
    /\ hdr = Idle /\ manifest = Idle /\ vfs = Idle /\ bcd = Idle
    /\ \E selected \in SeqsUpTo(TrailerSources, MaxSelected) :
          extract = [pc |-> "start", selected |-> selected, written |-> <<>>]

\* convert_to_trailer_file; with nothing selected it runs into todo!()
ConvertToTrailerFile ==
    /\ extract.pc = "start" /\ ~aborted
    /\ IF extract.selected = <<>>
       THEN aborted' = TRUE /\ UNCHANGED extract
       ELSE /\ extract' = [extract EXCEPT !.pc = "done",
                              !.written = convert_to_trailer_file(extract.selected)]
            /\ UNCHANGED aborted
    /\ UNCHANGED <<overflowChecks, osPos, handles, last, probe, disc, snd,
                   hdr, manifest, vfs, bcd>>

ExtractNext == ConvertToTrailerFile

SpecExtract == ExtractInit /\ [][ExtractNext]_vars

(***************************************************************************)
(* Extraction from a directory of SND files (extract.rs):                  *)
(* extract_from_regular_dir over the index of decoded SND entries.         *)
(***************************************************************************)
MaxIndex == 2
MaxRequest == 2

\* format!("r{}t5.{}", reel, if encrypted { "aue" } else { "aud" })
ReelFileName(reel, encrypted) == <<"r", reel, "t5", IF encrypted THEN "aue" ELSE "aud">>
\* output.join("r14t5.aud") and output.join("r14trlr.txt")
TrailerAudName == <<"r", 14, "t5", "aud">>
TrailerTxtName == <<"r14trlr.txt">>

\* find_entries_by_title and find_entries_by_id: the positions that match;
\* first() is the lowest of them
find_entries_by_title(index, name) == {i \in 1..Len(index) : index[i].title = name}
find_entries_by_id(index, id) == {i \in 1..Len(index) : index[i].id = id}
First(found) == CHOOSE i \in found : \A j \in found : i <= j
RECURSIVE Ascending(_)
Ascending(found) ==
    IF found = {} THEN <<>> ELSE <<First(found)>> \o Ascending(found \ {First(found)})

\* a file created or written in the output directory, and by which conversion
Written(name, by, data) == [name |-> name, by |-> by, data |-> data]

\* convert_to_feature_files: todo!() with nothing found, else a copy per entry
convert_to_feature_files(index, found) ==
    IF found = {} THEN Err
    ELSE Ok([k \in 1..Cardinality(found) |->
                Written(ReelFileName(index[Ascending(found)[k]].reel,
                                     index[Ascending(found)[k]].encrypted),
                        "feature", SourceData(index[Ascending(found)[k]]))])
FeatureFound(index, feature) ==
    IF feature.kind = "Name" THEN find_entries_by_title(index, feature.name)
    ELSE find_entries_by_id(index, feature.id)

\* the two tests on a requested trailer, without the one on the reel
IsTrailerOfAnyReel(e) == ~e.encrypted
\* the two tests on a requested trailer
IsTrailer(e) == e.reel = 14 /\ ~e.encrypted
\* the loop over the requested names or ids: todo!() when one of them is not
\* found or its first entry is not a trailer
RECURSIVE ResolveTrailers(_, _, _)
ResolveTrailers(index, found, entries) ==
    IF found = <<>> THEN Ok(entries)
    ELSE IF Head(found) = {} THEN Err
    ELSE IF ~IsTrailer(index[First(Head(found))]) THEN Err
    ELSE ResolveTrailers(index, Tail(found), Append(entries, First(Head(found))))
TrailersFound(index, trailers) ==
    IF trailers.kind = "Names"
    THEN [k \in 1..Len(trailers.items) |-> find_entries_by_title(index, trailers.items[k])]
    ELSE [k \in 1..Len(trailers.items) |-> find_entries_by_id(index, trailers.items[k])]

\* the two files convert_to_trailer_file leaves; todo!() with no entry
TrailerWrites(written) ==
    <<Written(TrailerAudName, "trailers", written.snd_file),
      Written(TrailerTxtName, "trailers", written.txt_file)>>
ConvertTrailers(index, entries) ==
    IF entries = <<>> THEN Err
    ELSE Ok(TrailerWrites(convert_to_trailer_file([k \in 1..Len(entries) |-> index[entries[k]]])))

\* extract_from_regular_dir: the feature first, then the trailers
Extracted(st, writes) == [st |-> st, writes |-> writes]
ExtractTrailersResolved(writes, converted) ==
    IF ~converted.ok THEN Extracted("panic", writes)
    ELSE Extracted("ok", writes \o converted.val)
ExtractTrailers(index, trailers, writes, resolved) ==
    IF ~resolved.ok THEN Extracted("panic", writes)
    ELSE ExtractTrailersResolved(writes, ConvertTrailers(index, resolved.val))
ExtractAfterFeature(index, trailers, feature_files) ==
    IF ~feature_files.ok THEN Extracted("panic", <<>>)
    ELSE IF ~trailers.some THEN Extracted("ok", feature_files.val)
    ELSE ExtractTrailers(index, trailers.val, feature_files.val,
                         ResolveTrailers(index, TrailersFound(index, trailers.val), <<>>))
extract_from_regular_dir(index, feature, trailers) ==
    ExtractAfterFeature(index, trailers,
                        IF feature.some
                        THEN convert_to_feature_files(index, FeatureFound(index, feature.val))
                        ELSE Ok(<<>>))

\* the SND files of the directory as indexed: trailers, two of them under
\* one title, a feature reel, an encrypted trailer, and a feature reel that
\* has the title and the id of a trailer
IndexedSnd ==
    {[title |-> <<"A">>, id |-> 1, reel |-> 14, encrypted |-> FALSE, len |-> SND_HEADER_LEN + 3],
     [title |-> <<"B">>, id |-> 2, reel |-> 14, encrypted |-> FALSE, len |-> SND_HEADER_LEN + 4],
     [title |-> <<"A">>, id |-> 3, reel |-> 14, encrypted |-> FALSE, len |-> SND_HEADER_LEN + 5],
     [title |-> <<"C">>, id |-> 4, reel |-> 1, encrypted |-> FALSE, len |-> SND_HEADER_LEN + 3],
     [title |-> <<"D">>, id |-> 5, reel |-> 14, encrypted |-> TRUE, len |-> SND_HEADER_LEN + 4],
     [title |-> <<"B">>, id |-> 2, reel |-> 2, encrypted |-> FALSE, len |-> SND_HEADER_LEN + 6]}
Indexes == {index \in SeqsUpTo(IndexedSnd, MaxIndex) :
               \A i, j \in 1..Len(index) : index[i] = index[j] => i = j}
RequestedTitles == {<<"A">>, <<"B">>, <<"D">>, <<"Z">>}
RequestedIds == {1, 2, 5, 9}
TrailerRequests ==
    {None} \cup {Some([kind |-> "Names", items |-> names]) :
                    names \in SeqsUpTo(RequestedTitles, MaxRequest)}
           \cup {Some([kind |-> "Ids", items |-> ids]) : ids \in SeqsUpTo(RequestedIds, MaxRequest)}
FeatureRequests == {None, Some([kind |-> "Name", name |-> <<"B">>]), Some([kind |-> "Id", id |-> 4])}

TrailersInit ==
    /\ overflowChecks = FALSE
    /\ aborted = FALSE
    /\ osPos = 0
    /\ handles = [h \in Handles |-> ClosedFile]
    /\ last = NoOp
    /\ probe = IdleProbe
    /\ disc = IdleDisc
    /\ snd = IdleSnd
    /\ hdr = Idle /\ manifest = Idle /\ vfs = Idle /\ bcd = Idle
    /\ \E index \in Indexes, feature \in FeatureRequests, trailers \in TrailerRequests :
          extract = [pc |-> "start", index |-> index, feature |-> feature,
                     trailers |-> trailers, st |-> "none", writes |-> <<>>]

ExtractFromRegularDir ==
    /\ extract.pc = "start"
    /\ \E r \in {extract_from_regular_dir(extract.index, extract.feature, extract.trailers)} :
          /\ extract' = [extract EXCEPT !.pc = "done", !.st = r.st, !.writes = r.writes]
          /\ aborted' = (r.st = "panic")
    /\ UNCHANGED <<overflowChecks, osPos, handles, last, probe, disc, snd,
                   hdr, manifest, vfs, bcd>>

TrailersNext == ExtractFromRegularDir

SpecTrailers == TrailersInit /\ [][TrailersNext]_vars

(***************************************************************************)
(* HDR files (hdr.rs): decode_hdr_from_file.                               *)
(***************************************************************************)
\* str::from_utf8: the width of the character a byte starts, 0 for none
Utf8Width(b) ==
    IF b < 128 THEN 1
    ELSE IF b \in 194..223 THEN 2
    ELSE IF b \in 224..239 THEN 3
    ELSE IF b \in 240..244 THEN 4
    ELSE 0
Utf8Second(b) ==
    CASE b = 224 -> 160..191
      [] b = 237 -> 128..159
      [] b = 240 -> 144..191
      [] b = 244 -> 128..143
      [] OTHER -> 128..191
RECURSIVE IsUtf8(_)
IsUtf8(bytes) ==
    IF bytes = <<>> THEN TRUE
    ELSE /\ Utf8Width(bytes[1]) > 0
         /\ Len(bytes) >= Utf8Width(bytes[1])
         /\ Utf8Width(bytes[1]) > 1 => bytes[2] \in Utf8Second(bytes[1])
         /\ \A i \in 3..Utf8Width(bytes[1]) : bytes[i] \in 128..191
         /\ IsUtf8(SubSeq(bytes, Utf8Width(bytes[1]) + 1, Len(bytes)))

\* str::trim_matches(char::from(0)) on the bytes of a valid string
RECURSIVE TrimStartMatches(_, _)
TrimStartMatches(bytes, c) ==
    IF bytes # <<>> /\ bytes[1] = c THEN TrimStartMatches(Tail(bytes), c) ELSE bytes
RECURSIVE TrimEndMatches(_, _)
TrimEndMatches(bytes, c) ==
    IF bytes # <<>> /\ bytes[Len(bytes)] = c
    THEN TrimEndMatches(SubSeq(bytes, 1, Len(bytes) - 1), c)
    ELSE bytes
TrimMatches(bytes, c) == TrimEndMatches(TrimStartMatches(bytes, c), c)

\* &bytes[a..b]
Slice(bytes, a, b) == SubSeq(bytes, a + 1, b)

decode_hdr_reel_at_90(bytes, path) ==
    IF ~check_hdr_magic(bytes)
    THEN [ok |-> FALSE, error |-> "HdrUnexpectedHeaderError",
          data |-> Slice(bytes, 0, 10), file |-> path]
    ELSE IF ~IsUtf8(Slice(bytes, 9, 27)) \/ ~IsUtf8(Slice(bytes, 69, 79))
    THEN [ok |-> FALSE, error |-> "Utf8Error"]
    ELSE Ok([id |-> bytes[80] + 256 * bytes[81],
             reel |-> bytes[91],
             title |-> TrimMatches(Slice(bytes, 9, 27), 0),
             studio |-> TrimMatches(Slice(bytes, 69, 79), 0)])

decode_hdr(bytes, path) ==
    IF ~check_hdr_magic(bytes)
    THEN [ok |-> FALSE, error |-> "HdrUnexpectedHeaderError",
          data |-> Slice(bytes, 0, 10), file |-> path]
    ELSE IF ~IsUtf8(Slice(bytes, 9, 27)) \/ ~IsUtf8(Slice(bytes, 69, 79))
    THEN [ok |-> FALSE, error |-> "Utf8Error"]
    ELSE Ok([id |-> bytes[80] + 256 * bytes[81],
             reel |-> bytes[92],
             title |-> TrimMatches(Slice(bytes, 9, 27), 0),
             studio |-> TrimMatches(Slice(bytes, 69, 79), 0)])

\* check_hdr_size on a file whose len() may fail: (len == HDR_LEN, len) or (false, 0)
hdr_size_check(file) ==
    IF file.len_ok THEN <<Len(file.bytes) = HDR_LEN, Len(file.bytes)>> ELSE <<FALSE, 0>>

\* File::read_bytes(HDR_LEN) on that file
hdr_read_bytes(file) ==
    IF file.read_ok /\ Len(file.bytes) >= HDR_LEN
    THEN Ok(SubSeq(file.bytes, 1, HDR_LEN))
    ELSE [ok |-> FALSE, error |-> "io::Error"]

decode_hdr_bytes(read, path) == IF read.ok THEN decode_hdr(read.val, path) ELSE read

decode_hdr_from_file(file, path) ==
    IF ~hdr_size_check(file)[1]
    THEN [ok |-> FALSE, error |-> "HdrUnexpectedSizeError",
          size |-> hdr_size_check(file)[2], file |-> path]
    ELSE decode_hdr_bytes(hdr_read_bytes(file), path)

HdrPath == "r1.hdr"

\* title and studio fields as found on discs: NUL padded, NULs in front or
\* inside, full width, multi-byte characters, and bytes that are not UTF-8
PadTo(bytes, n) == bytes \o RepeatN(0, n - Len(bytes))
HdrTitles ==
    {PadTo(t, 18) : t \in {<<104, 101, 108, 108, 111>>, <<>>, <<0, 104, 105>>,
                           <<97, 0, 98>>, <<195, 169>>, <<255>>, <<104, 105, 32>>}}
    \cup {RepeatN(65, 18), RepeatN(65, 17) \o <<195>>}
HdrStudios ==
    {PadTo(t, 10) : t \in {<<115, 116, 117, 100, 105, 111, 95, 111, 110, 101>>,
                           <<0, 85>>, <<128>>}}
HdrIds == {<<57, 48>>, <<255, 255>>, <<0, 1>>}
HdrReels == {7, 255}
HdrFill == {0, 255}
HdrImage(title, studio, id, reel, fill) ==
    <<HDR_LEN>> \o HDR_HEADER \o title \o RepeatN(fill, 42) \o studio \o id
        \o RepeatN(fill, 10) \o <<reel>> \o RepeatN(fill, 110)
HdrImages ==
    {HdrImage(title, <<115, 116, 117, 100, 105, 111, 95, 111, 110, 101>>, <<57, 48>>, reel, fill) :
        title \in HdrTitles, reel \in HdrReels, fill \in HdrFill}
    \cup {HdrImage(PadTo(<<104, 101, 108, 108, 111>>, 18), studio, id, 7, 0) :
            studio \in HdrStudios, id \in HdrIds}
\* one byte of the image changed
HdrPatched(image, at) == [image EXCEPT ![at + 1] = (image[at + 1] + 1) % 256]
\* the image cut short or extended by a byte
HdrResized(image) ==
    {image, SubSeq(image, 1, HDR_LEN - 1), Append(image, 0), <<>>, SubSeq(image, 1, 10)}
HdrFiles ==
    {[bytes |-> bytes, len_ok |-> len_ok, read_ok |-> read_ok] :
        bytes \in UNION {HdrResized(image) : image \in HdrImages}
                    \cup {HdrPatched(image, at) : image \in HdrImages, at \in 0..9},
        len_ok \in BOOLEAN, read_ok \in BOOLEAN}

HdrInit ==
    /\ overflowChecks = FALSE
    /\ aborted = FALSE
    /\ osPos = 0
    /\ handles = [h \in Handles |-> ClosedFile]
    /\ last = NoOp
    /\ probe = IdleProbe
    /\ disc = IdleDisc
    /\ snd = IdleSnd
    /\ manifest = Idle /\ extract = Idle /\ vfs = Idle /\ bcd = Idle
    /\ \E file \in HdrFiles : hdr = [pc |-> "start", file |-> file, decoded |-> Err]

DecodeHdrFromFile ==
    /\ hdr.pc = "start"
    /\ hdr' = [hdr EXCEPT !.pc = "decoded",
                  !.decoded = decode_hdr_from_file(hdr.file, HdrPath)]
    /\ UNCHANGED <<overflowChecks, aborted, osPos, handles, last, probe, disc, snd,
                   manifest, extract, vfs, bcd>>

HdrNext == DecodeHdrFromFile

SpecHdr == HdrInit /\ [][HdrNext]_vars

(***************************************************************************)
(* BCD (bcd.rs): the two conversions applied to every byte, and to each    *)
(* other's results.                                                        *)
(***************************************************************************)
U8 == 0..255

BcdInit ==
    /\ overflowChecks = FALSE
    /\ aborted = FALSE
    /\ osPos = 0
    /\ handles = [h \in Handles |-> ClosedFile]
    /\ last = NoOp
    /\ probe = IdleProbe
    /\ disc = IdleDisc
    /\ snd = IdleSnd
    /\ hdr = Idle /\ manifest = Idle /\ extract = Idle /\ vfs = Idle
    /\ \E value \in U8 : bcd = [pc |-> "start", value |-> value, result |-> Err, back |-> Err]

BcdUnchanged ==
    UNCHANGED <<overflowChecks, aborted, osPos, handles, last, probe, disc, snd,
                hdr, manifest, extract, vfs>>

\* decimal_to_bcd(value)
DecimalToBcd ==
    /\ bcd.pc = "start"
    /\ bcd' = [bcd EXCEPT !.pc = "packed", !.result = decimal_to_bcd(bcd.value)]
    /\ BcdUnchanged

\* bcd_to_decimal(value)
BcdToDecimal ==
    /\ bcd.pc = "start"
    /\ bcd' = [bcd EXCEPT !.pc = "unpacked", !.result = bcd_to_decimal(bcd.value)]
    /\ BcdUnchanged

\* bcd_to_decimal(decimal_to_bcd(value)?)
BcdToDecimalOfPacked ==
    /\ bcd.pc = "packed" /\ bcd.result.ok
    /\ bcd' = [bcd EXCEPT !.pc = "packed_unpacked", !.back = bcd_to_decimal(bcd.result.val)]
    /\ BcdUnchanged

\* decimal_to_bcd(bcd_to_decimal(value)?)
DecimalToBcdOfUnpacked ==
    /\ bcd.pc = "unpacked" /\ bcd.result.ok
    /\ bcd' = [bcd EXCEPT !.pc = "unpacked_packed", !.back = decimal_to_bcd(bcd.result.val)]
    /\ BcdUnchanged

BcdNext ==
    \/ DecimalToBcd
    \/ BcdToDecimal
    \/ BcdToDecimalOfPacked
    \/ DecimalToBcdOfUnpacked

SpecBcd == BcdInit /\ [][BcdNext]_vars

(***************************************************************************)
(* Path lookup in the filesystems (isofile.rs, squashfsfile.rs,            *)
(* partitionfile.rs, ext234file.rs): is_file, is_dir, open_file, read_dir. *)
(***************************************************************************)
ISO_DIRECTORY_RECORD_LEN == 33

\* what a lookup gives: a value, an Err, or a panic (todo!())
Found(v) == [st |-> "ok", val |-> v]
Failed(e) == [st |-> "err", error |-> e]
Panicked == [st |-> "panic"]

\* Path::components: a leading "/" is RootDir, a leading "." of a relative
\* path is CurDir, ".." is ParentDir, empty and other "." segments vanish
RECURSIVE SplitSlash(_, _, _)
SplitSlash(str, current, acc) ==
    IF str = <<>> THEN Append(acc, current)
    ELSE IF Head(str) = "/" THEN SplitSlash(Tail(str), <<>>, Append(acc, current))
    ELSE SplitSlash(Tail(str), Append(current, Head(str)), acc)
HasRoot(str) == str # <<>> /\ str[1] = "/"
NonEmptySegment(segment) == segment # <<>>
NamedSegment(segment) == segment # <<".">>
Segments(str) == SelectSeq(SplitSlash(str, <<>>, <<>>), NonEmptySegment)
ComponentOf(segment) ==
    IF segment = <<".", ".">> THEN [kind |-> "ParentDir"]
    ELSE [kind |-> "Normal", name |-> segment]
NormalComponents(segments) == [i \in 1..Len(segments) |-> ComponentOf(segments[i])]
Components(str) ==
    (IF HasRoot(str) THEN <<[kind |-> "RootDir"]>> ELSE <<>>)
      \o (IF ~HasRoot(str) /\ Segments(str) # <<>> /\ Segments(str)[1] = <<".">>
          THEN <<[kind |-> "CurDir"]>> ELSE <<>>)
      \o NormalComponents(SelectSeq(Segments(str), NamedSegment))

\* Path::join
PathJoin(parent, name) ==
    IF HasRoot(name) \/ parent = <<>> THEN name
    ELSE IF parent[Len(parent)] = "/" THEN parent \o name
    ELSE parent \o <<"/">> \o name

\* IsoDirectory::from_raw: the name is the identifier up to its last ';'
RFind(str, c) ==
    IF \E i \in 1..Len(str) : str[i] = c
    THEN CHOOSE i \in 1..Len(str) : str[i] = c /\ \A j \in (i + 1)..Len(str) : str[j] # c
    ELSE 0
CleanName(identifier) ==
    IF RFind(identifier, ";") > 0
    THEN SubSeq(identifier, 1, RFind(identifier, ";") - 1)
    ELSE identifier
IsoDirectoryFromRaw(raw, parent) ==
    [length |-> raw.length, flags |-> raw.flags, lba |-> raw.lba,
     data_length |-> raw.data_length, file_identifier |-> raw.identifier,
     name |-> CleanName(raw.identifier),
     path_to_entry |-> PathJoin(parent, CleanName(raw.identifier))]
\* IsoDirectory::is_dir: the Directory flag, bit 1
IsoDirectoryIsDir(d) == (d.flags \div 2) % 2 = 1
IsoDirectoryIsFile(d) == ~IsoDirectoryIsDir(d)

\* IsoFileSystem::get_children: the records of the extent, one after the
\* other, up to a record of length 0 or the end of the extent
RECURSIVE IsoChildrenLoop(_, _, _, _, _)
IsoChildrenLoop(records, len, parent, current, children) ==
    IF current + ISO_DIRECTORY_RECORD_LEN >= len THEN Found(children)
    ELSE IF records = <<>> THEN Found(children)
    ELSE IF Head(records).length = 0 THEN Found(children)
    ELSE IF current + ISO_DIRECTORY_RECORD_LEN + Len(Head(records).identifier) > len
    THEN Panicked
    ELSE IsoChildrenLoop(Tail(records), len, parent, current + Head(records).length,
                         Append(children, IsoDirectoryFromRaw(Head(records), parent)))
get_children(image, dir) ==
    IF dir.lba \notin DOMAIN image.extents
    THEN Found(<<>>)
    ELSE IsoChildrenLoop(image.extents[dir.lba], dir.data_length, dir.path_to_entry, 0, <<>>)

\* the first child of that name
FindNamed(children, name) ==
    IF \E i \in 1..Len(children) : children[i].name = name
    THEN Some(children[CHOOSE i \in 1..Len(children) :
                 children[i].name = name /\ \A j \in 1..(i - 1) : children[j].name # name])
    ELSE None

\* IsoFileSystem::get_dir_entry_from_path
RECURSIVE iso_get_dir_entry_from_path(_, _, _)
IsoDescend(image, d, rest) ==
    IF ~d.some THEN Failed("PathNotFound")
    ELSE IF IsoDirectoryIsDir(d.val) THEN iso_get_dir_entry_from_path(image, d.val, rest)
    ELSE IF rest # <<>> THEN Failed("PathNotFound")
    ELSE Found(d.val)
IsoLookup(image, children, name, rest) ==
    IF children.st # "ok" THEN children
    ELSE IsoDescend(image, FindNamed(children.val, name), rest)
iso_get_dir_entry_from_path(image, current, components) ==
    IF components = <<>> THEN Found(current)
    ELSE IF Head(components).kind = "Normal"
    THEN IsoLookup(image, get_children(image, current), Head(components).name, Tail(components))
    ELSE IF Head(components).kind = "RootDir"
    THEN iso_get_dir_entry_from_path(image, current, Tail(components))
    ELSE Panicked

IsoResolve(image, str) == iso_get_dir_entry_from_path(image, image.root, Components(str))

\* is_file and is_dir: Err is false, a panic stays a panic
AsBool(found, test(_)) ==
    IF found.st = "ok" THEN Found(test(found.val))
    ELSE IF found.st = "err" THEN Found(FALSE)
    ELSE found
iso_is_file(image, str) == AsBool(IsoResolve(image, str), IsoDirectoryIsFile)
iso_is_dir(image, str) == AsBool(IsoResolve(image, str), IsoDirectoryIsDir)
\* open_file: the extent of whatever record the path resolves to
IsoOpened(record) == IF record.st = "ok" THEN Found(IsoOpenFile(record.val)) ELSE record
iso_open_file(image, str) == IsoOpened(IsoResolve(image, str))
\* read_dir: every record of the directory's extent
IsoDirEntryFrom(d) ==
    [path |-> d.path_to_entry,
     file_type |-> IF IsoDirectoryIsDir(d) THEN "Directory" ELSE "File"]
IsoDirEntries(children) ==
    IF children.st # "ok" THEN children
    ELSE Found([i \in 1..Len(children.val) |-> IsoDirEntryFrom(children.val[i])])
IsoListed(image, dir) ==
    IF dir.st # "ok" THEN dir ELSE IsoDirEntries(get_children(image, dir.val))
iso_read_dir(image, str) == IsoListed(image, IsoResolve(image, str))

\* SquashFsSimpleDirEntry::is_file, is_dir
SquashFsIsFile(e) == e.inode_type \in {"BasicFile", "ExtendedFile"}
SquashFsIsDir(e) == e.inode_type \in {"BasicDir", "ExtendedDir"}
\* SquashFsFileSystem::get_dir_entry_from_path: only the root's entries
RECURSIVE squashfs_get_dir_entry_from_path(_, _)
squashfs_get_dir_entry_from_path(root, components) ==
    IF components = <<>> THEN Panicked
    ELSE IF Head(components).kind = "Normal"
    THEN IF ~FindNamed(root, Head(components).name).some THEN Failed("PathError")
         ELSE IF Tail(components) # <<>> THEN Failed("PathError")
         ELSE Found(FindNamed(root, Head(components).name).val)
    ELSE IF Head(components).kind = "RootDir"
    THEN squashfs_get_dir_entry_from_path(root, Tail(components))
    ELSE Panicked
SquashFsResolve(root, str) == squashfs_get_dir_entry_from_path(root, Components(str))
squashfs_is_file(root, str) == AsBool(SquashFsResolve(root, str), SquashFsIsFile)
squashfs_is_dir(root, str) == AsBool(SquashFsResolve(root, str), SquashFsIsDir)
\* open_file: a handle of length 0 for whatever entry the path resolves to
SquashFsOpened(entry) == IF entry.st = "ok" THEN Found(SquashFsOpenFile(0)) ELSE entry
squashfs_open_file(root, str) == SquashFsOpened(SquashFsResolve(root, str))
\* read_dir: the root's entries for "/", todo!() for anything else
SquashFsDirEntryFrom(e) ==
    [path |-> PathJoin(<<"/">>, e.name),
     file_type |-> IF SquashFsIsDir(e) THEN "Directory" ELSE "File"]
squashfs_read_dir(root, str) ==
    IF Components(str) = <<[kind |-> "RootDir"]>>
    THEN Found([i \in 1..Len(root) |-> SquashFsDirEntryFrom(root[i])])
    ELSE Panicked

\* PartitionFileSystem: one file whatever the path
partition_is_file(str) == Found(TRUE)
partition_is_dir(str) == Found(FALSE)
partition_open_file(slice, str) == Found(PartitionOpenFile(slice.start, slice.len))
partition_read_dir(str) == Found(<<>>)

\* Ext234FileSystem::read_dir: what ext4_view lists, without "." and ".."
NotDotEntry(e) == e.name # <<".">> /\ e.name # <<".", ".">>
Ext234DirEntryFrom(str, e) == [path |-> PathJoin(str, e.name), file_type |-> e.file_type]
Ext234Entries(str, listing) ==
    [i \in 1..Len(listing) |-> Ext234DirEntryFrom(str, listing[i])]
ext234_read_dir(listing, str) ==
    IF listing.st # "ok" THEN listing
    ELSE Found(Ext234Entries(str, SelectSeq(listing.val, NotDotEntry)))

\* Directory records as mkisofs lays them out: 33 bytes, the identifier, and
\* a pad byte when the identifier's length is even
IsoRecord(identifier, flags, lba, data_length) ==
    [length |-> ISO_DIRECTORY_RECORD_LEN + Len(identifier) + (1 - (Len(identifier) % 2)),
     flags |-> flags, lba |-> lba, data_length |-> data_length, identifier |-> identifier]
IsoSelf(lba, data_length) == IsoRecord(<<"<00>">>, 2, lba, data_length)
IsoParent(lba, data_length) == IsoRecord(<<"<01>">>, 2, lba, data_length)
\* a disc: DTS/R1;1 and DTS.EXE;1 below the root, the root's extent being
\* root_len bytes long; the root record comes from the volume descriptor and
\* is decoded with an empty name
IsoImage(root_len) ==
    [root |-> IsoDirectoryFromRaw([IsoSelf(1, root_len) EXCEPT !.identifier = <<>>], <<>>),
     extents |->
        [lba \in 1..4 |->
            CASE lba = 1 -> <<IsoSelf(1, root_len), IsoParent(1, root_len),
                              IsoRecord(<<"D", "T", "S">>, 2, 2, ISO_SECTOR_LEN),
                              IsoRecord(<<"D", "T", "S", ".", "E", "X", "E", ";", "1">>, 0, 3, MaxLen)>>
              [] lba = 2 -> <<IsoSelf(2, ISO_SECTOR_LEN), IsoParent(1, root_len),
                              IsoRecord(<<"R", "1", ";", "1">>, 0, 4, MaxLen)>>
              [] OTHER -> <<>>]]
IsoImages == {IsoImage(ISO_SECTOR_LEN), IsoImage(3 * ISO_DIRECTORY_RECORD_LEN + 2)}

SquashFsRoots ==
    {<<[name |-> <<"D", "T", "S">>, inode_type |-> "BasicDir"],
       [name |-> <<"D", "T", "S", ".", "E", "X", "E">>, inode_type |-> "BasicFile"],
       [name |-> <<"l">>, inode_type |-> "BasicSymlink"]>>,
     <<>>}

PartitionSlices == {[start |-> s, len |-> MaxLen] : s \in PartitionStarts}

Ext234Listings ==
    {Failed("Ext4Error"),
     Found(<<[name |-> <<".">>, file_type |-> "Directory"],
             [name |-> <<".", ".">>, file_type |-> "Directory"],
             [name |-> <<"D", "T", "S">>, file_type |-> "Directory"],
             [name |-> <<".", "x">>, file_type |-> "File"]>>),
     Found(<<[name |-> <<".">>, file_type |-> "Directory"],
             [name |-> <<".", ".">>, file_type |-> "Directory"]>>)}

VfsPaths ==
    {<<>>, <<"/">>, <<".">>, <<".", ".">>, <<"D", "T", "S">>, <<"/", "D", "T", "S">>,
     <<"/", "D", "T", "S", "/">>, <<"/", "D", "T", "S", "/", "R", "1">>,
     <<"D", "T", "S", "/", ".", "/", "R", "1">>, <<"D", "T", "S", "/", ".", ".">>,
     <<".", "/", "D", "T", "S">>, <<"/", "D", "T", "S", ".", "E", "X", "E">>,
     <<"/", "D", "T", "S", ".", "E", "X", "E", "/", "x">>, <<"/", "n", "o">>,
     <<"/", "D", "T", "S", "/", "n", "o">>, <<"l">>}

VfsBackends ==
    {[kind |-> "iso", image |-> image] : image \in IsoImages}
    \cup {[kind |-> "squashfs", root |-> root] : root \in SquashFsRoots}
    \cup {[kind |-> "partition", slice |-> slice] : slice \in PartitionSlices}
    \cup {[kind |-> "ext234", listing |-> listing] : listing \in Ext234Listings}

VfsInit ==
    /\ overflowChecks = FALSE
    /\ aborted = FALSE
    /\ osPos = 0
    /\ handles = [h \in Handles |-> ClosedFile]
    /\ last = NoOp
    /\ probe = IdleProbe
    /\ disc = IdleDisc
    /\ snd = IdleSnd
    /\ hdr = Idle /\ manifest = Idle /\ extract = Idle /\ bcd = Idle
    /\ \E fs \in VfsBackends, str \in VfsPaths :
          vfs = [pc |-> "start", fs |-> fs, path |-> str, op |-> "none", result |-> Panicked]

\* the call returns, or the process dies in todo!()
VfsReturn(op, result) ==
    /\ vfs.pc = "start" /\ ~aborted
    /\ vfs' = [vfs EXCEPT !.pc = "done", !.op = op, !.result = result]
    /\ aborted' = (result.st = "panic")
    /\ UNCHANGED <<overflowChecks, osPos, handles, last, probe, disc, snd,
                   hdr, manifest, extract, bcd>>

IsFile ==
    /\ vfs.fs.kind \in {"iso", "squashfs", "partition"}
    /\ VfsReturn("is_file",
                 CASE vfs.fs.kind = "iso" -> iso_is_file(vfs.fs.image, vfs.path)
                   [] vfs.fs.kind = "squashfs" -> squashfs_is_file(vfs.fs.root, vfs.path)
                   [] vfs.fs.kind = "partition" -> partition_is_file(vfs.path))

IsDir ==
    /\ vfs.fs.kind \in {"iso", "squashfs", "partition"}
    /\ VfsReturn("is_dir",
                 CASE vfs.fs.kind = "iso" -> iso_is_dir(vfs.fs.image, vfs.path)
                   [] vfs.fs.kind = "squashfs" -> squashfs_is_dir(vfs.fs.root, vfs.path)
                   [] vfs.fs.kind = "partition" -> partition_is_dir(vfs.path))

OpenFile ==
    /\ vfs.fs.kind \in {"iso", "squashfs", "partition"}
    /\ VfsReturn("open_file",
                 CASE vfs.fs.kind = "iso" -> iso_open_file(vfs.fs.image, vfs.path)
                   [] vfs.fs.kind = "squashfs" -> squashfs_open_file(vfs.fs.root, vfs.path)
                   [] vfs.fs.kind = "partition" -> partition_open_file(vfs.fs.slice, vfs.path))

ReadDir ==
    /\ vfs.fs.kind \in {"iso", "squashfs", "partition", "ext234"}
    /\ VfsReturn("read_dir",
                 CASE vfs.fs.kind = "iso" -> iso_read_dir(vfs.fs.image, vfs.path)
                   [] vfs.fs.kind = "squashfs" -> squashfs_read_dir(vfs.fs.root, vfs.path)
                   [] vfs.fs.kind = "partition" -> partition_read_dir(vfs.path)
                   [] vfs.fs.kind = "ext234" -> ext234_read_dir(vfs.fs.listing, vfs.path))

VfsNext == IsFile \/ IsDir \/ OpenFile \/ ReadDir

SpecVfs == VfsInit /\ [][VfsNext]_vars

(***************************************************************************)
(* SquashFS metadata blocks (squashfsfile.rs): read_block, the block cache *)
(* of get_metadata, and read_metadata.                                     *)
(***************************************************************************)
MaxBlocks == 102
MaxWarm == 1
CACHE_CAPACITY == 100

\* File::read_le_u16_at and File::read_exact_bytes_at on the image file
ImageReadLeU16At(bytes, at) ==
    IF at + 2 <= Len(bytes) THEN Ok(bytes[at + 1] + 256 * bytes[at + 2]) ELSE Err
ImageReadExactBytesAt(bytes, size, at) ==
    IF at + size <= Len(bytes) THEN Ok(SubSeq(bytes, at + 1, at + size)) ELSE Err

\* decode_block_header: bit 15 clear means compressed, the rest is the size
decode_block_header(header) ==
    [compressed |-> (header \div 32768) % 2 = 0, size |-> header % 32768]

\* ZlibDecoder::read_to_end, standing for the compressor: a stream is the
\* byte 0x78 and a body, which inflates to each body byte twice; anything
\* else is a decoding error
RECURSIVE Twice(_)
Twice(bytes) == IF bytes = <<>> THEN <<>> ELSE <<Head(bytes), Head(bytes)>> \o Twice(Tail(bytes))
Inflate(buf) == IF buf # <<>> /\ buf[1] = 120 THEN Ok(Twice(Tail(buf))) ELSE Err

\* read_block(start, None)
HeaderOffset(image) == IF image.unused THEN 3 ELSE 2
BlockEntry(data, next) == IF data.ok THEN Ok([data |-> data.val, next |-> next]) ELSE Err
BlockBody(image, start, h) ==
    IF h.compressed
    THEN BlockEntry(IF ImageReadExactBytesAt(image.bytes, h.size, start + HeaderOffset(image)).ok
                    THEN Inflate(ImageReadExactBytesAt(image.bytes, h.size,
                                                       start + HeaderOffset(image)).val)
                    ELSE Err,
                    start + HeaderOffset(image) + h.size)
    ELSE BlockEntry(ImageReadExactBytesAt(image.bytes, h.size, start + HeaderOffset(image)),
                    start + HeaderOffset(image) + h.size)
read_block(image, start) ==
    IF ~ImageReadLeU16At(image.bytes, start).ok THEN Err
    ELSE BlockBody(image, start, decode_block_header(ImageReadLeU16At(image.bytes, start).val))

\* LruCache: the entries from the most to the least recently used
CacheContains(cache, key) == \E i \in 1..Len(cache) : cache[i].key = key
CacheIndex(cache, key) == CHOOSE i \in 1..Len(cache) : cache[i].key = key
Without(cache, i) == SubSeq(cache, 1, i - 1) \o SubSeq(cache, i + 1, Len(cache))
\* LruCache::push without a capacity
LruPushUnbounded(cache, key, entry) ==
    <<[key |-> key, data |-> entry.data, next |-> entry.next]>> \o cache
\* LruCache::get handing out the most recently used entry
LruGetFront(cache, key) == cache
\* LruCache::push of a key that is not cached: the least recently used
\* entry goes when the cache is full
LruPush(cache, key, entry) ==
    <<[key |-> key, data |-> entry.data, next |-> entry.next]>>
        \o (IF Len(cache) >= CACHE_CAPACITY THEN SubSeq(cache, 1, CACHE_CAPACITY - 1) ELSE cache)
\* LruCache::get: the entry becomes the most recently used
LruGet(cache, key) ==
    <<cache[CacheIndex(cache, key)]>> \o Without(cache, CacheIndex(cache, key))

\* get_metadata: the entry, the cache afterwards, and the blocks used so far
Got(cache, log, key) ==
    [ok |-> TRUE, entry |-> cache[1], cache |-> cache, log |-> Append(log, key)]
Pushed(image, cache, log, start, block) ==
    IF ~block.ok THEN [ok |-> FALSE, cache |-> cache, log |-> log]
    ELSE Got(LruGet(LruPush(cache, start, block.val), start), log, start)
get_metadata(image, cache, log, start) ==
    IF CacheContains(cache, start)
    THEN Got(LruGet(cache, start), log, start)
    ELSE Pushed(image, cache, log, start, read_block(image, start))

\* read_metadata: the state of its loop; st is "run" while it goes on
Metadata(st, data, block, offset, length, cache, log) ==
    [st |-> st, data |-> data, block |-> block, offset |-> offset, length |-> length,
     cache |-> cache, log |-> log]
\* one turn of the loop that does not go back to offset 0 in the next block
ReadMetadataStepKeepingOffset(m, got) ==
    IF ~got.ok THEN Metadata("err", <<>>, 0, 0, 0, got.cache, got.log)
    ELSE IF m.offset > Len(got.entry.data)
    THEN Metadata("panic", <<>>, 0, 0, 0, got.cache, got.log)
    ELSE IF Len(got.entry.data) - m.offset < m.length
    THEN Metadata("run",
                  m.data \o SubSeq(got.entry.data, m.offset + 1, Len(got.entry.data)),
                  got.entry.next, Min(m.offset, 1),
                  m.length - (Len(got.entry.data) - m.offset), got.cache, got.log)
    ELSE IF Len(got.entry.data) - m.offset = m.length
    THEN Metadata("ok", m.data \o SubSeq(got.entry.data, m.offset + 1, m.offset + m.length),
                  got.entry.next, 0, 0, got.cache, got.log)
    ELSE Metadata("ok", m.data \o SubSeq(got.entry.data, m.offset + 1, m.offset + m.length),
                  m.block, m.offset + m.length, 0, got.cache, got.log)
\* one turn of the loop
ReadMetadataStep(m, got) ==
    IF ~got.ok THEN Metadata("err", <<>>, 0, 0, 0, got.cache, got.log)
    ELSE IF m.offset > Len(got.entry.data)
    THEN Metadata("panic", <<>>, 0, 0, 0, got.cache, got.log)
    ELSE IF Len(got.entry.data) - m.offset < m.length
    THEN Metadata("run",
                  m.data \o SubSeq(got.entry.data, m.offset + 1, Len(got.entry.data)),
                  got.entry.next, 0,
                  m.length - (Len(got.entry.data) - m.offset), got.cache, got.log)
    ELSE IF Len(got.entry.data) - m.offset = m.length
    THEN Metadata("ok", m.data \o SubSeq(got.entry.data, m.offset + 1, m.offset + m.length),
                  got.entry.next, 0, 0, got.cache, got.log)
    ELSE Metadata("ok", m.data \o SubSeq(got.entry.data, m.offset + 1, m.offset + m.length),
                  m.block, m.offset + m.length, 0, got.cache, got.log)
\* up to n turns of the loop, halved so that the evaluation stays shallow
RECURSIVE ReadMetadataLoop(_, _, _)
ReadMetadataLoop(image, m, n) ==
    IF m.st # "run" THEN m
    ELSE IF n <= 1
    THEN ReadMetadataStep(m, get_metadata(image, m.cache, m.log, m.block))
    ELSE ReadMetadataLoop(image, ReadMetadataLoop(image, m, n \div 2), n - (n \div 2))
\* every turn but the last moves on to a block further into the image, so
\* the loop takes no more turns than the image has bytes
read_metadata(image, cache, log, block, offset, length) ==
    ReadMetadataLoop(image, Metadata("run", <<>>, block, offset, length, cache, log),
                     Len(image.bytes) + 1)

\* Images: block headers and payloads laid out one after the other
BlockHeader(image_unused, compressed, payload) ==
    ToLeBytes(Len(payload) + (IF compressed THEN 0 ELSE 32768))
        \o (IF image_unused THEN <<0>> ELSE <<>>)
RECURSIVE Laid(_, _)
Laid(image_unused, blocks) ==
    IF blocks = <<>> THEN <<>>
    ELSE BlockHeader(image_unused, Head(blocks).compressed, Head(blocks).payload)
           \o Head(blocks).payload \o Laid(image_unused, Tail(blocks))
Plain(payload) == [compressed |-> FALSE, payload |-> payload]
Deflated(payload) == [compressed |-> TRUE, payload |-> payload]
\* a long table of two-byte blocks, more of them than the cache holds
LongImage ==
    [unused |-> FALSE,
     bytes |-> Laid(FALSE, [i \in 1..MaxBlocks |-> Plain(<<(2 * i) % 251, (2 * i + 1) % 251>>)])]
\* a short table with an empty block, compressed blocks (one of them
\* damaged) and 3-byte headers
MixedImage ==
    [unused |-> TRUE,
     bytes |-> Laid(TRUE, <<Plain(<<1, 2, 3>>), Plain(<<>>), Deflated(<<120, 7, 8>>),
                            Plain(<<9>>), Deflated(<<5>>)>>)]
MetaImages == {LongImage, MixedImage}
MetaBlocks(image) == IF image.unused THEN {0, 6, 9} ELSE {0, 4}
MetaOffsets == {0, 1, 3, 4}
MetaFirstLengths == {0, 1, 3, 2 * CACHE_CAPACITY, 2 * MaxBlocks}
MetaSecondLengths == {0, 1, 4}
\* earlier reads: one that fills the cache and evicts from it, one that
\* touches a single block further on
LastBlock(image) == CHOOSE b \in MetaBlocks(image) : \A c \in MetaBlocks(image) : c <= b
WarmReads(image) == {<<0, 2 * CACHE_CAPACITY + 1>>, <<LastBlock(image), 1>>}

NotRead == [done |-> FALSE]
ReadResult(r) ==
    [done |-> TRUE, st |-> r.st, data |-> r.data, block |-> r.block, offset |-> r.offset]

MetaInit ==
    /\ overflowChecks = FALSE
    /\ aborted = FALSE
    /\ osPos = 0
    /\ handles = [h \in Handles |-> ClosedFile]
    /\ last = NoOp
    /\ probe = IdleProbe
    /\ disc = IdleDisc
    /\ snd = IdleSnd
    /\ hdr = Idle /\ manifest = Idle /\ extract = Idle /\ bcd = Idle
    /\ \E image \in MetaImages :
         \E block \in MetaBlocks(image), offset \in MetaOffsets,
            a \in MetaFirstLengths, b \in MetaSecondLengths :
            vfs = [image |-> image, cache |-> <<>>, log |-> <<>>, warm |-> 0,
                   block |-> block, offset |-> offset, a |-> a, b |-> b,
                   whole |-> NotRead, first |-> NotRead, second |-> NotRead]

MetaUnchanged ==
    UNCHANGED <<overflowChecks, osPos, handles, last, probe, disc, snd,
                hdr, manifest, extract, bcd>>

\* the call returns (Ok or Err) or the process dies in todo!(); the cache
\* and the log of used blocks are as the call left them
MetaReturn(r) ==
    /\ aborted' = (r.st = "panic")
    /\ MetaUnchanged

\* some other read_metadata call, for its effect on the cache
WarmUp ==
    /\ ~aborted /\ vfs.warm < MaxWarm
    /\ \E warm \in WarmReads(vfs.image) :
         \E r \in {read_metadata(vfs.image, vfs.cache, vfs.log, warm[1], 0, warm[2])} :
            /\ vfs' = [vfs EXCEPT !.warm = @ + 1, !.cache = r.cache, !.log = r.log]
            /\ MetaReturn(r)

\* read_metadata(block, offset, a + b)
MetaRead(length) == read_metadata(vfs.image, vfs.cache, vfs.log, vfs.block, vfs.offset, length)
ReadWhole ==
    /\ ~aborted /\ ~vfs.whole.done
    /\ \E r \in {MetaRead(vfs.a + vfs.b)} :
          /\ vfs' = [vfs EXCEPT !.whole = ReadResult(r), !.cache = r.cache, !.log = r.log]
          /\ MetaReturn(r)

\* read_metadata(block, offset, a)
ReadFirst ==
    /\ ~aborted /\ ~vfs.first.done
    /\ \E r \in {MetaRead(vfs.a)} :
          /\ vfs' = [vfs EXCEPT !.first = ReadResult(r), !.cache = r.cache, !.log = r.log]
          /\ MetaReturn(r)

\* read_metadata(next_block, next_offset, b) from the cursor of the first read
MetaReadOn == read_metadata(vfs.image, vfs.cache, vfs.log, vfs.first.block, vfs.first.offset, vfs.b)
ReadSecond ==
    /\ ~aborted /\ vfs.first.done /\ vfs.first.st = "ok" /\ ~vfs.second.done
    /\ \E r \in {MetaReadOn} :
          /\ vfs' = [vfs EXCEPT !.second = ReadResult(r), !.cache = r.cache, !.log = r.log]
          /\ MetaReturn(r)

MetaNext == WarmUp \/ ReadWhole \/ ReadFirst \/ ReadSecond

SpecMeta == MetaInit /\ [][MetaNext]_vars

(***************************************************************************)
(* SquashFS directories (squashfsfile.rs): read_inode and open_dir over    *)
(* read_metadata.                                                          *)
(***************************************************************************)
SQUASHFS_DIR_COUNT == 256
SQUASHFS_NAME_LEN == 256
SQUASHFS_COMMON_INODE_HEADER_LEN == 16
SQUASHFS_DIR_HEADER_LEN == 12
SQUASHFS_DIR_ENTRY_LEN == 8

\* u16, u32, u64::from_le_bytes of the n bytes of data from position `at` on
RECURSIVE LeAt(_, _, _)
LeAt(data, at, n) == IF n = 0 THEN 0 ELSE data[at] + 256 * LeAt(data, at + 1, n - 1)

\* decode_inode_type: the values 1..14 are inode types, the rest is todo!()
decode_inode_type(value) == IF value \in 1..14 THEN Ok(value) ELSE Err

\* the type-specific header read_inode reads after the common one, and the
\* file_size, block_index and block_offset of the inode
InodeTailLen(type) ==
    CASE type = 1 -> 16 [] type = 2 -> 16 [] type = 8 -> 24 [] type = 9 -> 40
InodeOf(type, d) ==
    CASE type = 1 -> [file_size |-> LeAt(d, 9, 2), block_index |-> LeAt(d, 1, 4),
                      block_offset |-> LeAt(d, 11, 2)]
      [] type = 2 -> [file_size |-> LeAt(d, 13, 4), block_index |-> LeAt(d, 1, 4),
                      block_offset |-> LeAt(d, 9, 4)]
      [] type = 8 -> [file_size |-> LeAt(d, 5, 4), block_index |-> LeAt(d, 9, 4),
                      block_offset |-> LeAt(d, 19, 2)]
      [] type = 9 -> [file_size |-> LeAt(d, 9, 8), block_index |-> LeAt(d, 1, 8),
                      block_offset |-> LeAt(d, 33, 4)]
InodeRead(st, inode, r) == [st |-> st, inode |-> inode, cache |-> r.cache, log |-> r.log]
NoInode == [file_size |-> 0, block_index |-> 0, block_offset |-> 0]
ReadInodeTail(type, r) ==
    IF r.st # "ok" THEN InodeRead(r.st, NoInode, r)
    ELSE InodeRead("ok", InodeOf(type, r.data), r)
ReadInodeType(image, type, common) ==
    IF type \notin {1, 2, 8, 9} THEN InodeRead("panic", NoInode, common)
    ELSE ReadInodeTail(type, read_metadata(image, common.cache, common.log, common.block,
                                           common.offset, InodeTailLen(type)))
ReadInodeCommon(image, common) ==
    IF common.st # "ok" THEN InodeRead(common.st, NoInode, common)
    ELSE ReadInodeType(image, LeAt(common.data, 1, 2), common)
read_inode(image, cache, log, start_block, offset) ==
    ReadInodeCommon(image, read_metadata(image, cache, log, image.inode_table + start_block,
                                         offset, SQUASHFS_COMMON_INODE_HEADER_LEN))

\* String::from_utf8_lossy of a name made of ASCII bytes and of bytes that
\* start no UTF-8 sequence: these become U+FFFD
Utf8Lossy(bytes) == [i \in 1..Len(bytes) |-> IF bytes[i] < 128 THEN bytes[i] ELSE 65533]

\* open_dir: the state of its two loops; `counts` keeps the count field of
\* every header read
Walk(st, start, offset, bytes, dir_count, header, entries, counts, cache, log) ==
    [st |-> st, start |-> start, offset |-> offset, bytes |-> bytes, dir_count |-> dir_count,
     header |-> header, entries |-> entries, counts |-> counts, cache |-> cache, log |-> log]
WalkEnded(m, st, r) == [m EXCEPT !.st = st, !.cache = r.cache, !.log = r.log]
NoDirHeader == [count |-> 0, start |-> 0, inode_number |-> 0]
SquashFsDirHeaderFromRaw(d) ==
    [count |-> LeAt(d, 1, 4), start |-> LeAt(d, 5, 4), inode_number |-> LeAt(d, 9, 4)]

\* SquashFsSimpleDirEntry::from_raw; a negative inode_number stands for the
\* wrapped value 2^32 + inode_number
SquashFsSimpleDirEntryFromRaw(header, raw, raw_name, type) ==
    [block_index |-> header.start, inode_type |-> type,
     inode_number |-> header.inode_number - LeAt(raw, 1, 2), name |-> Utf8Lossy(raw_name)]

\* `while bytes < len` with len = file_size - 3 in u64: below 3 the
\* subtraction wraps (where it does not panic) to more than any image holds
DirMore(bytes, file_size) == IF file_size >= 3 THEN bytes < file_size - 3 ELSE TRUE

\* the header of a group of entries: count + 1 entries follow; the test of
\* dir_count against SQUASHFS_DIR_COUNT has an empty body
DirHeaderRead(m, r) ==
    IF r.st # "ok" THEN WalkEnded(m, r.st, r)
    ELSE IF LeAt(r.data, 1, 4) + 1 > SQUASHFS_DIR_COUNT
    THEN [m EXCEPT !.start = r.block, !.offset = r.offset,
                   !.header = SquashFsDirHeaderFromRaw(r.data),
                   !.dir_count = LeAt(r.data, 1, 4) + 1,
                   !.bytes = @ + SQUASHFS_DIR_HEADER_LEN,
                   !.counts = Append(@, LeAt(r.data, 1, 4)),
                   !.cache = r.cache, !.log = r.log]
    ELSE [m EXCEPT !.start = r.block, !.offset = r.offset,
                   !.header = SquashFsDirHeaderFromRaw(r.data),
                   !.dir_count = LeAt(r.data, 1, 4) + 1,
                   !.bytes = @ + SQUASHFS_DIR_HEADER_LEN,
                   !.counts = Append(@, LeAt(r.data, 1, 4)),
                   !.cache = r.cache, !.log = r.log]

\* the name of an entry and the entry pushed
DirNameRead(checks, m, raw, name_size, r) ==
    IF r.st # "ok" THEN WalkEnded(m, r.st, r)
    ELSE IF ~decode_inode_type(LeAt(raw, 5, 2)).ok THEN WalkEnded(m, "panic", r)
    ELSE IF checks /\ m.header.inode_number < LeAt(raw, 1, 2) THEN WalkEnded(m, "panic", r)
    ELSE [m EXCEPT !.start = r.block, !.offset = r.offset,
                   !.bytes = @ + SQUASHFS_DIR_ENTRY_LEN + name_size + 1,
                   !.entries = Append(@, SquashFsSimpleDirEntryFromRaw(
                                             m.header, raw, r.data, LeAt(raw, 5, 2))),
                   !.cache = r.cache, !.log = r.log]
\* an entry: name_size + 1 is computed in u16; the test of name_size
\* against SQUASHFS_NAME_LEN has an empty body
DirEntryRead(image, checks, m, r) ==
    IF r.st # "ok" THEN WalkEnded(m, r.st, r)
    ELSE IF checks /\ LeAt(r.data, 7, 2) + 1 >= 2 ^ U16Bits THEN WalkEnded(m, "panic", r)
    ELSE IF LeAt(r.data, 7, 2) > SQUASHFS_NAME_LEN
    THEN DirNameRead(checks, m, r.data, LeAt(r.data, 7, 2),
                     read_metadata(image, r.cache, r.log, r.block, r.offset,
                                   (LeAt(r.data, 7, 2) + 1) % (2 ^ U16Bits)))
    ELSE DirNameRead(checks, m, r.data, LeAt(r.data, 7, 2),
                     read_metadata(image, r.cache, r.log, r.block, r.offset,
                                   (LeAt(r.data, 7, 2) + 1) % (2 ^ U16Bits)))

\* one turn of the inner loop, else one of the outer loop, else the end
DirStep(image, checks, file_size, m) ==
    IF m.dir_count > 0
    THEN DirEntryRead(image, checks, [m EXCEPT !.dir_count = @ - 1],
                      read_metadata(image, m.cache, m.log, m.start, m.offset,
                                    SQUASHFS_DIR_ENTRY_LEN))
    ELSE IF DirMore(m.bytes, file_size)
    THEN DirHeaderRead(m, read_metadata(image, m.cache, m.log, m.start, m.offset,
                                        SQUASHFS_DIR_HEADER_LEN))
    ELSE [m EXCEPT !.st = "ok"]
\* up to n turns, halved so that the evaluation stays shallow
RECURSIVE DirLoop(_, _, _, _, _)
DirLoop(image, checks, file_size, m, n) ==
    IF m.st # "run" THEN m
    ELSE IF n <= 1 THEN DirStep(image, checks, file_size, m)
    ELSE DirLoop(image, checks, file_size,
                 DirLoop(image, checks, file_size, m, n \div 2), n - (n \div 2))

\* open_dir: every turn but the last reads at least 9 bytes of the tables,
\* which hold at most twice the bytes of the image
OpenDirOf(image, checks, inode) ==
    IF inode.st # "ok"
    THEN Walk(inode.st, 0, 0, 0, 0, NoDirHeader, <<>>, <<>>, inode.cache, inode.log)
    ELSE IF checks /\ inode.inode.file_size < 3
    THEN Walk("panic", 0, 0, 0, 0, NoDirHeader, <<>>, <<>>, inode.cache, inode.log)
    ELSE DirLoop(image, checks, inode.inode.file_size,
                 Walk("run", image.dir_table + inode.inode.block_index,
                      inode.inode.block_offset, 0, 0, NoDirHeader, <<>>, <<>>,
                      inode.cache, inode.log),
                 2 * Len(image.bytes) + 2)
open_dir(image, checks, cache, log, start, offset) ==
    OpenDirOf(image, checks, read_inode(image, cache, log, start, offset))

\* Images: an inode table with one inode, and a directory table that starts
\* with DirPad bytes of something else
RECURSIVE Le(_, _)
Le(value, n) == IF n = 0 THEN <<>> ELSE <<value % 256>> \o Le(value \div 256, n - 1)
DirPad == <<255, 255, 255, 255, 255>>
InodeBytes(type, file_size) ==
    Le(type, 2) \o Le(0, 6) \o Le(0, 4) \o Le(7, 4)
      \o (CASE type = 1 -> Le(0, 4) \o Le(2, 4) \o Le(file_size, 2) \o Le(Len(DirPad), 2) \o Le(7, 4)
            [] type = 2 -> Le(0, 4) \o Le(0, 4) \o Le(Len(DirPad), 4) \o Le(file_size, 4)
            [] type = 8 -> Le(2, 4) \o Le(file_size, 4) \o Le(0, 4) \o Le(7, 4) \o Le(0, 2)
                             \o Le(Len(DirPad), 2) \o Le(0, 4)
            [] OTHER -> <<>>)
DirEntryBytes(name, type) ==
    Le(0, 2) \o Le(0, 2) \o Le(type, 2) \o Le(Len(name) - 1, 2) \o name
\* the entries one after the other
RECURSIVE DirEntriesBytes(_, _)
DirEntriesBytes(names, type) ==
    IF names = <<>> THEN <<>>
    ELSE IF Len(names) = 1 THEN DirEntryBytes(names[1], type)
    ELSE DirEntriesBytes(SubSeq(names, 1, Len(names) \div 2), type)
           \o DirEntriesBytes(SubSeq(names, Len(names) \div 2 + 1, Len(names)), type)
DirGroup(count, names, type) == Le(count, 4) \o Le(0, 4) \o Le(7, 4) \o DirEntriesBytes(names, type)
\* the directory tables: one group of two entries; two groups of one entry;
\* a group of 257 entries; an entry with a name of 258 bytes; a group cut
\* short; no group; an entry of no inode type
DirTables ==
    {DirGroup(1, <<Text(1), Text(2)>>, 2),
     DirGroup(0, <<Text(1)>>, 1) \o DirGroup(0, <<Text(3)>>, 2),
     DirGroup(SQUASHFS_DIR_COUNT, [i \in 1..(SQUASHFS_DIR_COUNT + 1) |-> <<97 + (i % 26)>>], 2),
     DirGroup(0, <<Text(SQUASHFS_NAME_LEN + 2)>>, 2),
     DirGroup(2, <<Text(1), <<200, 98>>>>, 2),
     <<>>,
     DirGroup(0, <<Text(1)>>, 15)}
DirFileSizes(table) == {Len(table) + 3, Len(table) + 4, SQUASHFS_DIR_HEADER_LEN + 3, 3, 2}
DirInodeTypes == {1, 2, 3, 8}
DirCuts == {0, 20}
\* the table as one metadata block, or as two of them
DirBlocks(table, cut) ==
    IF cut = 0 \/ Len(table) <= cut THEN <<Plain(DirPad \o table)>>
    ELSE <<Plain(DirPad \o SubSeq(table, 1, cut)), Plain(SubSeq(table, cut + 1, Len(table)))>>
DirImage(type, file_size, table, cut) ==
    [unused |-> FALSE, inode_table |-> 0,
     dir_table |-> Len(Laid(FALSE, <<Plain(InodeBytes(type, file_size))>>)),
     bytes |-> Laid(FALSE, <<Plain(InodeBytes(type, file_size))>> \o DirBlocks(table, cut))]

DirInit ==
    /\ overflowChecks \in BOOLEAN
    /\ aborted = FALSE
    /\ osPos = 0
    /\ handles = [h \in Handles |-> ClosedFile]
    /\ last = NoOp
    /\ probe = IdleProbe
    /\ disc = IdleDisc
    /\ snd = IdleSnd
    /\ hdr = Idle /\ manifest = Idle /\ extract = Idle /\ bcd = Idle
    /\ \E table \in DirTables, type \in DirInodeTypes, cut \in DirCuts :
         \E file_size \in DirFileSizes(table) :
            vfs = [pc |-> "start", image |-> DirImage(type, file_size, table, cut),
                   file_size |-> file_size, table |-> table,
                   opened |-> [st |-> "none"]]

\* open_dir(0, 0) on a file system that has read nothing yet
OpenDir ==
    /\ vfs.pc = "start"
    /\ \E m \in {open_dir(vfs.image, overflowChecks, <<>>, <<>>, 0, 0)} :
          /\ vfs' = [vfs EXCEPT !.pc = "opened",
                                !.opened = [st |-> m.st, counts |-> m.counts, bytes |-> m.bytes,
                                            entries |-> IF m.st = "ok" THEN m.entries ELSE <<>>]]
          /\ aborted' = (m.st = "panic")
    /\ UNCHANGED <<overflowChecks, osPos, handles, last, probe, disc, snd,
                   hdr, manifest, extract, bcd>>

DirNext == OpenDir

SpecDir == DirInit /\ [][DirNext]_vars

(***************************************************************************)
(* The ISO 9660 child-record walk over the bytes of an extent (isofile.rs: *)
(* get_children).                                                          *)
(***************************************************************************)
\* IsoDirectory::from_raw on the 33 bytes of a record and its identifier
IsoDirectoryFromBytes(raw, identifier) ==
    [length |-> raw[1], flags |-> raw[26], lba |-> LeAt(raw, 3, 4),
     data_length |-> LeAt(raw, 11, 4), file_identifier |-> Utf8Lossy(identifier),
     name |-> IF RFind(Utf8Lossy(identifier), 59) > 0
              THEN SubSeq(Utf8Lossy(identifier), 1, RFind(Utf8Lossy(identifier), 59) - 1)
              ELSE Utf8Lossy(identifier)]

\* the state of the loop: `touched` is the end of the furthest range of
\* bytes the walk has indexed
Walked(st, children, touched) == [st |-> st, children |-> children, touched |-> touched]
\* the loop of get_children from `current` on: the record header is read
\* when current + 33 < len, the identifier is the slice
\* bytes[current + 33 .. current + 33 + name_len], which panics past the end
RECURSIVE GetChildrenLoop(_, _, _, _)
GetChildrenLoop(bytes, current, children, touched) ==
    IF current + ISO_DIRECTORY_RECORD_LEN >= Len(bytes) THEN Walked("ok", children, touched)
    ELSE IF bytes[current + 1] = 0
    THEN Walked("ok", children, Max(touched, current + ISO_DIRECTORY_RECORD_LEN))
    ELSE IF current + ISO_DIRECTORY_RECORD_LEN + bytes[current + ISO_DIRECTORY_RECORD_LEN]
              > Len(bytes)
    THEN Walked("panic", children,
                current + ISO_DIRECTORY_RECORD_LEN + bytes[current + ISO_DIRECTORY_RECORD_LEN])
    ELSE GetChildrenLoop(
             bytes, current + bytes[current + 1],
             Append(children,
                    IsoDirectoryFromBytes(
                        SubSeq(bytes, current + 1, current + ISO_DIRECTORY_RECORD_LEN),
                        SubSeq(bytes, current + ISO_DIRECTORY_RECORD_LEN + 1,
                               current + ISO_DIRECTORY_RECORD_LEN
                                 + bytes[current + ISO_DIRECTORY_RECORD_LEN]))),
             Max(touched, current + ISO_DIRECTORY_RECORD_LEN
                            + bytes[current + ISO_DIRECTORY_RECORD_LEN]))
\* get_children: no children when the extent cannot be read
GetChildren(extent) ==
    IF ~extent.readable THEN Walked("ok", <<>>, 0)
    ELSE GetChildrenLoop(extent.bytes, 0, <<>>, 0)

\* extents: `len` bytes, 'A' everywhere but in the length byte and the
\* identifier-length byte of a first record at 0 and of a second record
\* right after the first
ExtentLens == {0, ISO_DIRECTORY_RECORD_LEN, ISO_DIRECTORY_RECORD_LEN + 1, 40, 80}
RecordLengths == {0, 1, ISO_DIRECTORY_RECORD_LEN + 1, 36, 255}
IdentifierLengths == {0, 1, 3, 6, 255}
ExtentByte(i, first, second) ==
    IF i = first.length + ISO_DIRECTORY_RECORD_LEN THEN second.id_len
    ELSE IF i = first.length + 1 THEN second.length
    ELSE IF i = ISO_DIRECTORY_RECORD_LEN THEN first.id_len
    ELSE IF i = 1 THEN first.length
    ELSE 65
ExtentBytes(len, first, second) == [i \in 1..len |-> ExtentByte(i, first, second)]
RecordBytes == [length : RecordLengths, id_len : IdentifierLengths]
Extents ==
    {[readable |-> readable, bytes |-> ExtentBytes(len, first, second)] :
        readable \in BOOLEAN, len \in ExtentLens, first \in RecordBytes, second \in RecordBytes}

IsoWalkInit ==
    /\ overflowChecks = FALSE
    /\ aborted = FALSE
    /\ osPos = 0
    /\ handles = [h \in Handles |-> ClosedFile]
    /\ last = NoOp
    /\ probe = IdleProbe
    /\ disc = IdleDisc
    /\ snd = IdleSnd
    /\ hdr = Idle /\ manifest = Idle /\ extract = Idle /\ bcd = Idle
    /\ \E extent \in Extents :
          vfs = [pc |-> "start", extent |-> extent, walked |-> Walked("none", <<>>, 0)]

GetChildrenOfExtent ==
    /\ vfs.pc = "start"
    /\ \E w \in {GetChildren(vfs.extent)} :
          /\ vfs' = [vfs EXCEPT !.pc = "walked", !.walked = w]
          /\ aborted' = (w.st = "panic")
    /\ UNCHANGED <<overflowChecks, osPos, handles, last, probe, disc, snd,
                   hdr, manifest, extract, bcd>>

IsoWalkNext == GetChildrenOfExtent

SpecIsoWalk == IsoWalkInit /\ [][IsoWalkNext]_vars

(***************************************************************************)
(* Opening an ISO 9660 image (isofile.rs): IsoFileSystem::from_file.       *)
(***************************************************************************)
ISO_HEADER_START == ISO_SECTOR_LEN * 16

\* File::read_exact_bytes_at(2048, ISO_HEADER_START) on a file of `len` bytes
IsoReadHeader(file) ==
    IF ISO_HEADER_START + ISO_SECTOR_LEN <= file.len THEN Ok(file.header) ELSE Err

\* the file system from_file builds: the root is decoded from the record in
\* the descriptor with the empty name
IsoFileSystemOf(header) ==
    Ok([header |-> header,
        root |-> IsoDirectoryFromRaw([header.directory_entry EXCEPT !.identifier = <<>>], <<>>)])
\* from_file: the two tests on the descriptor have empty bodies, the magic is
\* not looked at; the header and the root record are decoded whatever they hold
from_file(file) ==
    IF ~IsoReadHeader(file).ok THEN Err
    ELSE IF IsoReadHeader(file).val.volume_descriptor_type # 1
    THEN IsoFileSystemOf(IsoReadHeader(file).val)
    ELSE IF IsoReadHeader(file).val.version # 1
    THEN IsoFileSystemOf(IsoReadHeader(file).val)
    ELSE IsoFileSystemOf(IsoReadHeader(file).val)

\* files: every mix of descriptor type, magic and version, long enough for
\* the descriptor sector or not
IsoDescriptorTypes == {0, 1, 2, 255}
IsoVersions == {0, 1, 2}
IsoMagics == {ISO_MAGIC, <<67, 68, 48, 48, 50>>, <<0, 0, 0, 0, 0>>, <<66, 69, 65, 48, 49>>}
IsoFileLens ==
    {0, ISO_HEADER_START, ISO_HEADER_START + ISO_SECTOR_LEN - 1,
     ISO_HEADER_START + ISO_SECTOR_LEN, ISO_HEADER_START + 2 * ISO_SECTOR_LEN}
IsoFiles ==
    {[len |-> len,
      header |-> [volume_descriptor_type |-> type, magic |-> magic, version |-> version,
                  directory_entry |-> IsoSelf(1, 0)]] :
        len \in IsoFileLens, type \in IsoDescriptorTypes, magic \in IsoMagics,
        version \in IsoVersions}

IsoOpenInit ==
    /\ overflowChecks = FALSE
    /\ aborted = FALSE
    /\ osPos = 0
    /\ handles = [h \in Handles |-> ClosedFile]
    /\ last = NoOp
    /\ probe = IdleProbe
    /\ disc = IdleDisc
    /\ snd = IdleSnd
    /\ hdr = Idle /\ manifest = Idle /\ extract = Idle /\ bcd = Idle
    /\ \E file \in IsoFiles : vfs = [pc |-> "start", file |-> file, opened |-> Err]

FromFile ==
    /\ vfs.pc = "start"
    /\ vfs' = [vfs EXCEPT !.pc = "opened", !.opened = from_file(vfs.file)]
    /\ UNCHANGED <<overflowChecks, aborted, osPos, handles, last, probe, disc, snd,
                   hdr, manifest, extract, bcd>>

IsoOpenNext == FromFile

SpecIsoOpen == IsoOpenInit /\ [][IsoOpenNext]_vars

(***************************************************************************)
(* The claims about the virtual file layer, checked under SpecFile.        *)
(***************************************************************************)
ReadAtOps == {"read_exact_bytes_at", "read_buffer_at", "read_le_u16_at"}
ReadOps == ReadAtOps \cup {"read"}

\* The step was a call that returned (it did not panic).
Returned == ~aborted' /\ last'.op # "none"

\* C1: a successful read_exact_bytes_at, read_buffer_at or read_le_u16_at on
\* any file (host file, partition slice, ISO file) leaves the file's logical
\* position where it was before the call.
C1_PositionRestored ==
    [][(Returned /\ last'.op \in ReadAtOps /\ last'.st = "ok")
        => (IF last'.f = HostFile THEN osPos' ELSE handles'[last'.f].current)
             = Position(last'.f)]_vars

\* C1 witness: a window handle standing at a non-zero position has read
\* bytes at another offset.
C1_Witness ==
    /\ last.op = "read_exact_bytes_at" /\ last.st = "ok" /\ last.f \in Handles
    /\ Len(last.data) > 0
    /\ handles[last.f].current > 0
    /\ last.arg.off # handles[last.f].current

\* C2: the position of a partition-slice or ISO handle is always within
\* [0, len], and a seek whose target lies outside [0, len] returns an error
\* and does not move the position.
C2_PositionWithinLength ==
    [][/\ \A h \in Handles :
            handles'[h].current >= 0 /\ handles'[h].current <= handles'[h].len
       /\ (Returned /\ last'.op = "seek" /\ last'.f \in Handles)
            => LET hd == handles[last'.f]
                   target == CASE last'.arg.whence = "Start" -> last'.arg.off
                               [] last'.arg.whence = "End" -> hd.len + last'.arg.off
                               [] last'.arg.whence = "Current" -> hd.current + last'.arg.off
               IN  (target < 0 \/ target > hd.len)
                     => last'.st = "err" /\ handles'[last'.f].current = hd.current]_vars

\* What handle f returns for read(n) when it is the only handle in use: the
\* same handle over the backing file at rest, every other handle untouched.
SoloRead(f, n) ==
    Read([os |-> 0,
          hs |-> [g \in Handles |->
                    IF g = f THEN handles[f] ELSE [handles[g] EXCEPT !.current = 0]]],
         f, n)

\* C3: a read on one handle of a shared backing file leaves the backing
\* file's position and the other handles unchanged, and returns the bytes the
\* handle returns when it is the only one in use.
C3_SharedFileIsolation ==
    [][(Returned /\ last'.op \in ReadOps /\ last'.f \in Handles)
        => /\ osPos' = osPos
           /\ \A g \in Handles \ {last'.f} : handles'[g] = handles[g]
           /\ last'.op = "read"
                => /\ last'.st = SoloRead(last'.f, last'.n).st
                   /\ last'.data = SoloRead(last'.f, last'.n).data]_vars

\* C3 witness: handle 1 has read bytes while the backing file stood at a
\* non-zero position and handle 2 stood inside its window.
C3_Witness ==
    /\ last.op = "read" /\ last.st = "ok" /\ last.f = 1 /\ Len(last.data) > 0
    /\ osPos > 0
    /\ handles[2].current > 0

\* C4: read(buf) on a window handle (start, L) at position p returns at most
\* min(|buf|, L - p) bytes, which are the parent's bytes from start + p, all
\* of them inside [start, start + L); the position advances by the number of
\* bytes returned, and the read returns 0 at p = L.
C4_ReadWithinWindow ==
    [][(Returned /\ last'.op = "read" /\ last'.f \in Handles /\ last'.st = "ok")
        => LET hd == handles[last'.f]
               p == hd.current
               k == last'.ret
           IN  /\ k <= last'.n
               /\ \A i \in 1..k : p + i - 1 < hd.len
               /\ last'.data = ParentSlice(hd.start + p, k)
               /\ handles'[last'.f].current = p + k
               /\ p = hd.len => k = 0]_vars

\* C5: on a window handle of length L, seek(End(k)) with -L <= k <= 0 sets
\* the position to L + k and returns it, seek(Start(a)) with a <= L sets it to
\* a, and seek(Current(d)) with 0 <= p + d <= L sets it to p + d.
C5_SeekSetsTarget ==
    [][(Returned /\ last'.op = "seek" /\ last'.f \in Handles)
        => LET hd == handles[last'.f]
               target == CASE last'.arg.whence = "Start" -> last'.arg.off
                           [] last'.arg.whence = "End" -> hd.len + last'.arg.off
                           [] last'.arg.whence = "Current" -> hd.current + last'.arg.off
           IN  (target >= 0 /\ target <= hd.len)
                 => /\ last'.st = "ok"
                    /\ last'.ret = target
                    /\ handles'[last'.f].current = target]_vars

(***************************************************************************)
(* The claim about type detection, checked under SpecDetect.               *)
(***************************************************************************)
\* the file holds at least n bytes and carries `bytes` at offset `at`
Holds(file, n, at, bytes) ==
    /\ n <= file.len
    /\ \A i \in 1..Len(bytes) : ByteAt(file, at + i - 1) = bytes[i]
LoweredExtension(path) ==
    IF PathExtension(path).some THEN ToAsciiLowercase(PathExtension(path).val) ELSE <<"?">>
\* the steps of the cascade, in order, each with the kind it yields
DetectSteps(file, path) ==
    << [hit |-> LoweredExtension(path) = <<"a", "u", "d">>, kind |-> "Aud"],
       [hit |-> LoweredExtension(path) = <<"a", "u", "e">>, kind |-> "Aue"],
       [hit |-> LoweredExtension(path) = <<"h", "d", "r">>, kind |-> "Hdr"],
       [hit |-> LoweredExtension(path) = <<"s", "n", "d">>, kind |-> "Snd"],
       [hit |-> LoweredExtension(path) = <<"i", "s", "o">>, kind |-> "Iso"],
       [hit |-> file.len = 202 /\ Holds(file, 202, 0, <<202>> \o HDR_HEADER), kind |-> "Hdr"],
       [hit |-> Holds(file, 32769 + 5, 32769, ISO_MAGIC), kind |-> "Iso"],
       [hit |-> Holds(file, 4, 0, SQUASHFS_MAGIC), kind |-> "SquashFs"],
       [hit |-> Holds(file, 512, 510, <<85, 170>>), kind |-> "HddImg"],
       [hit |-> Holds(file, 1536, 1080, <<83, 239>>), kind |-> "PartitionImg"] >>
Hits(file, path) == {i \in 1..10 : DetectSteps(file, path)[i].hit}
FirstHit(file, path) ==
    CHOOSE i \in Hits(file, path) : \A j \in Hits(file, path) : i <= j

\* C6: get_file_type returns the kind of the first matching step of the
\* cascade (extension aud|aue|hdr|snd, extension iso, HDR content, ISO magic,
\* SquashFS magic, MBR signature, ext magic); a probe whose read fails does
\* not match; with no match the result is an error naming the path.
C6_FirstMatchWins ==
    probe.called =>
        IF Hits(probe.file, probe.path) = {}
        THEN ~probe.result.ok /\ probe.result.path = probe.path
        ELSE /\ probe.result.ok
             /\ probe.result.kind =
                    DetectSteps(probe.file, probe.path)[FirstHit(probe.file, probe.path)].kind

\* a file without a known extension that carries the ISO, SquashFS and MBR
\* magics at once and is detected as ISO
C6_Witness ==
    /\ probe.called
    /\ {7, 8, 9} \subseteq Hits(probe.file, probe.path)
    /\ FirstHit(probe.file, probe.path) = 7
    /\ probe.result.ok /\ probe.result.kind = "Iso"

(***************************************************************************)
(* The claims about disc recognition, checked under SpecCd.                *)
(***************************************************************************)
Recognised == disc.called /\ disc.result.ok /\ disc.result.val.some
Tree == disc.result.val.val
TopHas(kind, names) ==
    \E i \in 1..Len(disc.fs.top) :
        disc.fs.top[i].kind = kind /\ disc.fs.top[i].name \in names
AnyCase(str) == {n \in {e.name : e \in Range(TopMaster)} : ToAsciiLowercase(n) = str}
DtsExe == <<"d", "t", "s", ".", "e", "x", "e">>
DtsDir == <<"d", "t", "s">>
\* a directory named dts that cannot be read, or a file that cannot be opened
FsFails ==
    \/ \E i \in 1..Len(disc.fs.top) :
          disc.fs.top[i].kind = "Directory" /\ disc.fs.top[i].name \in AnyCase(DtsDir)
            /\ ~disc.fs.top[i].ok
    \/ \E i \in 1..Len(disc.fs.dts) : disc.fs.dts[i].kind = "File" /\ ~disc.fs.dts[i].ok

\* C7 as stated: a listing is recognised as a disc iff it holds a File named
\* exactly dts.exe and a Directory named exactly dts, letter case included.
C7_ExactCaseNames ==
    (disc.called /\ disc.result.ok) =>
        (Recognised <=> (TopHas("File", {DtsExe}) /\ TopHas("Directory", {DtsDir})))

\* C7 amended: a listing is recognised as a disc iff it holds a File whose
\* name lowercases to dts.exe and a Directory whose name lowercases to dts;
\* lacking either, or with the kinds swapped, it is not a disc; recognition
\* fails with an error only when the file system fails.
C7_LowercasedNames ==
    disc.called =>
        /\ disc.result.ok =>
              (Recognised <=> (TopHas("File", AnyCase(DtsExe))
                                 /\ TopHas("Directory", AnyCase(DtsDir))))
        /\ ~(TopHas("File", AnyCase(DtsExe)) /\ TopHas("Directory", AnyCase(DtsDir)))
              => ~Recognised
        /\ ~disc.result.ok => FsFails

\* a listing holding the two names in upper case only, recognised as a disc
C7_Witness ==
    /\ Recognised
    /\ ~TopHas("File", {DtsExe}) /\ ~TopHas("Directory", {DtsDir})
    /\ TopHas("File", {ToUpper(DtsExe)}) /\ TopHas("Directory", {ToUpper(DtsDir)})

\* the reel-audio names: r<reel>t5.aud or .aue for the reels 1 to 13
ReelNumbers ==
    {<<d>> : d \in {"1", "2", "3", "4", "5", "6", "7", "8", "9"}}
        \cup {<<"1", d>> : d \in {"0", "1", "2", "3"}}
ReelNames ==
    {<<"r">> \o n \o <<"t", "5", ".">> \o x :
        n \in ReelNumbers, x \in {<<"a", "u", "d">>, <<"a", "u", "e">>}}
DtsFiles == {disc.fs.dts[i].name : i \in {j \in 1..Len(disc.fs.dts) : disc.fs.dts[j].kind = "File"}}
\* the dts directory of a plain disc holds exactly the given files
DtsDirHolds(names) ==
    /\ disc.called
    /\ disc.fs.top \in PlainTops
    /\ Len(disc.fs.dts) = Cardinality(names)
    /\ DtsFiles = names
\* every reel-audio file is among the reels, and the reels are in the
\* lexical order of their lowercased names
ReelsEnumeratedSorted ==
    Recognised =>
        /\ \A n \in DtsFiles : ToAsciiLowercase(n) \in ReelNames => n \in Range(Tree.reels)
        /\ \A i, j \in 1..Len(Tree.reels) :
              i < j => ~StrLess(ToAsciiLowercase(Tree.reels[j]), ToAsciiLowercase(Tree.reels[i]))
TrailerPair ==
    Some([metadata |-> <<"r", "1", "4", "t", "r", "l", "r", ".", "t", "x", "t">>, audio |-> <<"r", "1", "4", "t", "5", ".", "a", "u", "d">>])

\* C8 as stated: a dts directory with r01t5.aud, r02t5.aud, r14t5.aud and
\* r14trlr.txt yields the reels r01t5.aud, r02t5.aud and the trailer pair;
\* every reel-audio file is enumerated, sorted by lowercased name.
C8_TwoDigitReelNames ==
    /\ DtsDirHolds({<<"r", "0", "1", "t", "5", ".", "a", "u", "d">>, <<"r", "0", "2", "t", "5", ".", "a", "u", "d">>, <<"r", "1", "4", "t", "5", ".", "a", "u", "d">>, <<"r", "1", "4", "t", "r", "l", "r", ".", "t", "x", "t">>}) =>
          /\ Recognised
          /\ Tree.reels = <<<<"r", "0", "1", "t", "5", ".", "a", "u", "d">>, <<"r", "0", "2", "t", "5", ".", "a", "u", "d">>>>
          /\ Tree.trailers = TrailerPair
    /\ ReelsEnumeratedSorted

\* C8 amended: a dts directory with r1t5.aud, r2t5.aud, r14t5.aud and
\* r14trlr.txt yields exactly the reels r1t5.aud, r2t5.aud in that order and
\* the trailer pair (r14trlr.txt with r14t5.aud); every reel-audio file
\* (r<1..13>t5.aud|aue) is enumerated, the reels sorted by lowercased name.
C8_ReelsAndTrailers ==
    /\ DtsDirHolds({<<"r", "1", "t", "5", ".", "a", "u", "d">>, <<"r", "2", "t", "5", ".", "a", "u", "d">>, <<"r", "1", "4", "t", "5", ".", "a", "u", "d">>, <<"r", "1", "4", "t", "r", "l", "r", ".", "t", "x", "t">>}) =>
          /\ Recognised
          /\ Tree.reels = <<<<"r", "1", "t", "5", ".", "a", "u", "d">>, <<"r", "2", "t", "5", ".", "a", "u", "d">>>>
          /\ Tree.trailers = TrailerPair
    /\ ReelsEnumeratedSorted

\* the four files listed with r2t5.aud ahead of r1t5.aud, the reels returned sorted
C8_Witness ==
    /\ DtsDirHolds({<<"r", "1", "t", "5", ".", "a", "u", "d">>, <<"r", "2", "t", "5", ".", "a", "u", "d">>, <<"r", "1", "4", "t", "5", ".", "a", "u", "d">>, <<"r", "1", "4", "t", "r", "l", "r", ".", "t", "x", "t">>})
    /\ \E i, j \in 1..Len(disc.fs.dts) :
          i < j /\ disc.fs.dts[i].name = <<"r", "2", "t", "5", ".", "a", "u", "d">> /\ disc.fs.dts[j].name = <<"r", "1", "t", "5", ".", "a", "u", "d">>
    /\ Recognised
    /\ Tree.reels = <<<<"r", "1", "t", "5", ".", "a", "u", "d">>, <<"r", "2", "t", "5", ".", "a", "u", "d">>>>

TrailerMetadataNames ==
    {<<"r", "1", "4", "t", "r", "l", "r", ".", "t", "x", "t">>, <<"r", "1", "4", ".", "t", "x", "t">>}
TrailerAudioNames ==
    {<<"r", "1", "4", "t", "5", ".", "a", "u", "d">>, <<"r", "1", "4", "t", "5", ".", "a", "u", "e">>}
DtsHas(names) ==
    \E i \in 1..Len(disc.fs.dts) :
        disc.fs.dts[i].kind = "File" /\ ToAsciiLowercase(disc.fs.dts[i].name) \in names
\* C26: the recognised tree has a trailer record iff the dts directory holds
\* both a trailer-metadata file (r14trlr.txt or r14.txt) and a trailer-audio
\* file (r14t5.aud or r14t5.aue); with one of the two alone it has none; the
\* trailer-audio file is never among the reels.
C26_TrailerNeedsBoth ==
    Recognised =>
        /\ Tree.trailers.some <=> (DtsHas(TrailerMetadataNames) /\ DtsHas(TrailerAudioNames))
        /\ Tree.trailers.some =>
              /\ ToAsciiLowercase(Tree.trailers.val.metadata) \in TrailerMetadataNames
              /\ ToAsciiLowercase(Tree.trailers.val.audio) \in TrailerAudioNames
        /\ \A i \in 1..Len(Tree.reels) : ToAsciiLowercase(Tree.reels[i]) \notin TrailerAudioNames

\* r14.txt and r14t5.aue listed with a reel: the pair is reported, the reel is the only reel
C26_Witness ==
    /\ Recognised
    /\ Tree.trailers = Some([metadata |-> <<"r", "1", "4", ".", "t", "x", "t">>,
                             audio |-> <<"r", "1", "4", "t", "5", ".", "a", "u", "e">>])
    /\ Len(Tree.reels) = 1 /\ Len(disc.fs.dts) = 3

\* the orders in which a listing can present its entries
Orders(entries) ==
    {[i \in 1..Len(entries) |-> entries[p[i]]] :
        p \in {q \in [1..Len(entries) -> 1..Len(entries)] :
                 \A i, j \in 1..Len(entries) : q[i] = q[j] => i = j}}
\* C28: the result of the recognizer (disc or not, the reels, the files
\* chosen as trailer metadata and audio) is the same for every order of the
\* entries of the top-level listing and of the dts listing.
C28_OrderIrrelevant ==
    disc.called =>
        \A top \in Orders(disc.fs.top), dts \in Orders(disc.fs.dts) :
            get_if_dts_cd_dir_entry([top |-> top, dts |-> dts], top) = disc.result

(***************************************************************************)
(* The claims about the SND header, checked under SpecSnd.                 *)
(***************************************************************************)
AgreeOn(idx, a, b) == \A i \in idx : At(a, i) = At(b, i)
RevisionOf(bytes) ==
    IF At(bytes, 60) # 42 THEN "H1"
    ELSE IF /\ \A i \in {18, 31, 47, 51, 55, 59} : At(bytes, i) = 32
            /\ At(bytes, 50) = 68
            /\ \A i \in {65, 66} : At(bytes, i) = 0
    THEN "XDA"
    ELSE "XD"

\* C9: two headers that agree on bytes 60, 18, 31, 47, 50, 51, 55, 59, 65, 66
\* get the same revision; it is H1 iff byte 60 is not '*', XDA iff byte 60 is
\* '*', bytes 18, 31, 47, 51, 55, 59 are spaces, byte 50 is 'D' and bytes
\* 65, 66 are 0, and XD otherwise.
C9_RevisionDependsOnTenBytes ==
    (snd.pc = "done") =>
        /\ AgreeOn({60, 18, 31, 47, 50, 51, 55, 59, 65, 66}, snd.first, snd.second)
              => snd.revisions[1] = snd.revisions[2]
        /\ snd.revisions[1] = RevisionOf(snd.first)
        /\ snd.revisions[2] = RevisionOf(snd.second)

\* two XDA headers that differ in every byte the revision does not read
C9_Witness ==
    /\ snd.pc = "done"
    /\ AgreeOn({60, 18, 31, 47, 50, 51, 55, 59, 65, 66}, snd.first, snd.second)
    /\ \A i \in 0..94 : i \notin {60, 18, 31, 47, 50, 51, 55, 59, 65, 66}
            => At(snd.first, i) # At(snd.second, i)
    /\ snd.revisions = <<"XDA", "XDA">>

FieldsWithin(o, fh, sm) ==
    o.frames <= fh /\ o.hours <= fh /\ o.seconds <= sm /\ o.minutes <= sm
AbsentIsZero ==
    /\ (snd.pc \in {"encoded", "decoded"} /\ ~snd.offset.some) => snd.bytes = Ok(<<0, 0, 0, 0>>)
    /\ (snd.pc = "decoded" /\ snd.bytes = Ok(<<0, 0, 0, 0>>)) => snd.decoded = Ok(None)

\* C10 as stated: an Offset with all four fields in 0..=99 decodes from its
\* encoding to itself; absent encodes to 00 00 00 00, which decodes to absent.
C10_RoundTripUpTo99 ==
    /\ (snd.pc = "decoded" /\ snd.offset.some /\ FieldsWithin(snd.offset.val, 99, 99))
          => snd.decoded = Ok(snd.offset)
    /\ AbsentIsZero

\* C10 amended: an Offset with frames and hours in 0..=99, seconds and
\* minutes in 0..=60 and not all four zero decodes from its encoding to
\* itself; absent (and the all-zero Offset) encodes to 00 00 00 00, which
\* decodes to absent.
C10_RoundTripWithinBias ==
    /\ (snd.pc = "decoded" /\ snd.offset.some /\ FieldsWithin(snd.offset.val, 99, 60)
          /\ snd.offset.val # [frames |-> 0, seconds |-> 0, minutes |-> 0, hours |-> 0])
          => snd.decoded = Ok(snd.offset)
    /\ AbsentIsZero

\* 99 frames, 60 seconds, 59 minutes, 10 hours encoded as 99 60 59 10 (BCD) and decoded back
C10_Witness ==
    /\ snd.pc = "decoded"
    /\ snd.offset = Some([frames |-> 99, seconds |-> 60, minutes |-> 59, hours |-> 10])
    /\ snd.bytes = Ok(<<153, 96, 89, 16>>)
    /\ snd.decoded = Ok(snd.offset)

(***************************************************************************)
(* The claims about the SND header encoder, checked under SpecEncode.      *)
(***************************************************************************)
\* C11: encode_header returns exactly 92 bytes for every record it accepts,
\* whatever the revision, the lengths of the strings and the optional fields.
C11_HeaderIs92Bytes ==
    (snd.pc = "encoded" /\ snd.encoded.ok) => Len(snd.encoded.val) = SND_HEADER_LEN

\* a value laid out in a field of `max` bytes: in full and padded, or cut
Fitted(value, fill, max) ==
    IF Len(value) >= max THEN SubSeq(value, 1, max)
    ELSE value \o RepeatN(fill, max - Len(value))
TitleFill(xd) == IF xd.some /\ xd.val.xda.some THEN 32 ELSE 0
\* C23: in the output of encode_header the title occupies exactly its fixed
\* width at the start of the header: a shorter title is emitted in full and
\* then padded (0 for H1 and XD, space for XDA), a longer one is cut.
C23_TitleFillsItsField ==
    (snd.pc = "encoded" /\ snd.encoded.ok)
      => /\ Len(snd.encoded.val) >= TitleField(snd.data.xd)
         /\ SubSeq(snd.encoded.val, 1, TitleField(snd.data.xd))
              = Fitted(snd.data.title, TitleFill(snd.data.xd), TitleField(snd.data.xd))

(***************************************************************************)
(* The claims about the trailers manifest, checked under SpecManifest.     *)
(***************************************************************************)
\* C12: decoding the text that encode_trailers_to_txt_file produces for a
\* sequence of valid entries (titles as decoded from SND headers included)
\* yields the same entries in the same order.
C12_ManifestRoundTrip ==
    (manifest.given = "entries" /\ manifest.pc = "decoded")
        => manifest.decoded = Ok([entries |-> manifest.entries])

IsComment(line) == line # <<>> /\ line[1] = ";"
WellFormed(line) ==
    /\ Len(SplitAsciiWhitespace(line)) = 5
    /\ EntryOfTokens(SplitAsciiWhitespace(line)).ok
PurelyAlphanumeric(line) == \A i \in 1..Len(line) : IsAlphanumeric(line[i])
\* a line that is neither a comment, nor an entry, nor a tolerated stray line
Rejected(line) == ~IsComment(line) /\ ~WellFormed(line) /\ ~PurelyAlphanumeric(line)
RejectedLines == {i \in 1..Len(manifest.lines) : Rejected(manifest.lines[i])}
FirstRejected == CHOOSE i \in RejectedLines : \A j \in RejectedLines : i <= j
EntryLine(line) == ~IsComment(line) /\ WellFormed(line)

\* C13: a non-comment line that does not split into 5 tokens is skipped when
\* it is purely alphanumeric; every other malformed line fails the decode
\* with the manifest parse error carrying the path, the line text and the
\* line number; comment lines give neither an entry nor an error.
C13_StrayLinesSkipped ==
    (manifest.given = "text" /\ manifest.pc = "decoded") =>
        IF RejectedLines = {}
        THEN /\ manifest.decoded.ok
             /\ Len(manifest.decoded.val.entries)
                  = Len(SelectSeq(manifest.lines, EntryLine))
        ELSE /\ ~manifest.decoded.ok
             /\ manifest.decoded.error = "ParseTrailerMetadataTxtError"
             /\ manifest.decoded.file = ManifestPath
             /\ manifest.decoded.line = manifest.lines[FirstRejected]
             /\ manifest.decoded.position = FirstRejected

(***************************************************************************)
(* The claims about trailer extraction, checked under SpecExtract.         *)
(***************************************************************************)
PayloadLen(k) == extract.selected[k].len - 92
RECURSIVE PayloadLensBefore(_)
PayloadLensBefore(k) == IF k <= 1 THEN 0 ELSE PayloadLensBefore(k - 1) + PayloadLen(k - 1)
ManifestFieldsOf(k) ==
    /\ extract.written.entries[k].start = 0
    /\ extract.written.entries[k].end = PayloadLen(k) \div 3675
    /\ extract.written.entries[k].offset = 92 + PayloadLensBefore(k)
PayloadAtOffset(k) ==
    /\ extract.written.entries[k].offset + PayloadLen(k) <= Len(extract.written.snd_file)
    /\ SubSeq(extract.written.snd_file, extract.written.entries[k].offset + 1,
              extract.written.entries[k].offset + PayloadLen(k))
           = SubSeq(SourceData(extract.selected[k]), 93, extract.selected[k].len)

\* C14: the k-th manifest entry has start 0, end = payload_len / 3675 and
\* offset = 92 + the payload lengths before it, and at that offset of the
\* written r14t5.aud the k-th payload (source bytes 92..end) begins.
C14_OffsetsLocatePayloads ==
    (extract.pc = "done") =>
        /\ Len(extract.written.entries) = Len(extract.selected)
        /\ \A k \in 1..Len(extract.selected) : ManifestFieldsOf(k) /\ PayloadAtOffset(k)

(***************************************************************************)
(* The claims about HDR files, checked under SpecHdr.                      *)
(***************************************************************************)
HdrReadable == hdr.file.len_ok /\ hdr.file.read_ok
HdrSigned ==
    /\ hdr.file.bytes[1] = 202
    /\ SubSeq(hdr.file.bytes, 2, 9) = <<0, 1, 0, 4, 0, 68, 84, 83>>
HdrText == IsUtf8(SubSeq(hdr.file.bytes, 10, 27)) /\ IsUtf8(SubSeq(hdr.file.bytes, 70, 79))
RECURSIVE Unpadded(_)
Unpadded(bytes) ==
    IF bytes # <<>> /\ bytes[1] = 0 THEN Unpadded(Tail(bytes))
    ELSE IF bytes # <<>> /\ bytes[Len(bytes)] = 0 THEN Unpadded(SubSeq(bytes, 1, Len(bytes) - 1))
    ELSE bytes

\* C15: decode_hdr_from_file succeeds exactly when the file is 202 bytes long,
\* byte 0 is 0xCA and bytes 1..9 are 00 01 00 04 00 'D' 'T' 'S' (title and
\* studio being UTF-8); it then yields id = bytes[79] + 256 * bytes[80],
\* reel = bytes[91], title = bytes 9..27 and studio = bytes 69..79 without
\* their NUL padding. Another length gives the unexpected-size error with
\* the observed size, a wrong byte 0 or signature the unexpected-header error.
C15_HdrDecode ==
    (hdr.pc = "decoded" /\ HdrReadable) =>
        /\ hdr.decoded.ok <=> (Len(hdr.file.bytes) = 202 /\ HdrSigned /\ HdrText)
        /\ hdr.decoded.ok =>
              hdr.decoded.val = [id |-> hdr.file.bytes[80] + 256 * hdr.file.bytes[81],
                                 reel |-> hdr.file.bytes[92],
                                 title |-> Unpadded(SubSeq(hdr.file.bytes, 10, 27)),
                                 studio |-> Unpadded(SubSeq(hdr.file.bytes, 70, 79))]
        /\ Len(hdr.file.bytes) # 202 =>
              /\ ~hdr.decoded.ok
              /\ hdr.decoded.error = "HdrUnexpectedSizeError"
              /\ hdr.decoded.size = Len(hdr.file.bytes)
        /\ (Len(hdr.file.bytes) = 202 /\ ~HdrSigned) =>
              ~hdr.decoded.ok /\ hdr.decoded.error = "HdrUnexpectedHeaderError"
C15_Witness ==
    /\ hdr.pc = "decoded" /\ HdrReadable /\ hdr.decoded.ok
    /\ hdr.decoded.val.id = 12345 /\ hdr.decoded.val.reel = 7
    /\ hdr.decoded.val.title = <<104, 105>>
    /\ hdr.file.bytes[10] = 0

(***************************************************************************)
(* The claims about BCD, checked under SpecBcd.                            *)
(***************************************************************************)
\* bitwise operations on bytes
RECURSIVE BitOr(_, _)
BitOr(a, b) ==
    IF a = 0 /\ b = 0 THEN 0
    ELSE (IF a % 2 = 1 \/ b % 2 = 1 THEN 1 ELSE 0) + 2 * BitOr(a \div 2, b \div 2)
RECURSIVE BitAnd(_, _)
BitAnd(a, b) ==
    IF a = 0 \/ b = 0 THEN 0
    ELSE (IF a % 2 = 1 /\ b % 2 = 1 THEN 1 ELSE 0) + 2 * BitAnd(a \div 2, b \div 2)
RECURSIVE Shl(_, _)
Shl(a, n) == IF n = 0 THEN a ELSE Shl((2 * a) % 256, n - 1)
RECURSIVE Shr(_, _)
Shr(a, n) == IF n = 0 THEN a ELSE Shr(a \div 2, n - 1)
ValidDecimal(v) == v \in 0..99
ValidBcd(b) == Shr(b, 4) \in 0..9 /\ BitAnd(b, 15) \in 0..9

\* C16: on their valid domains the two BCD functions are mutually inverse:
\* bcd_to_decimal(decimal_to_bcd(v)) = v for v in 0..=99, and
\* decimal_to_bcd(bcd_to_decimal(b)) = b for every byte b with both nibbles
\* in 0..=9.
C16_BcdMutuallyInverse ==
    /\ (bcd.pc = "packed" /\ ValidDecimal(bcd.value)) => bcd.result.ok
    /\ (bcd.pc = "unpacked" /\ ValidBcd(bcd.value)) => bcd.result.ok
    /\ (bcd.pc = "packed_unpacked" /\ ValidDecimal(bcd.value)) => bcd.back = Ok(bcd.value)
    /\ (bcd.pc = "unpacked_packed" /\ ValidBcd(bcd.value)) => bcd.back = Ok(bcd.value)
C16_Witness ==
    bcd.pc = "unpacked_packed" /\ bcd.value = 153 /\ bcd.result = Ok(99) /\ bcd.back = Ok(153)

\* C17: decimal_to_bcd(v) is ((v / 10) << 4) | (v % 10) for v <= 99 and an
\* error otherwise; bcd_to_decimal(b) is 10 * (b >> 4) + (b & 0xF) when both
\* nibbles are <= 9 and an error otherwise (0 -> 0x00, 15 <-> 0x15,
\* 99 <-> 0x99, 0xA0 rejected).
C17_BcdValues ==
    /\ bcd.pc = "packed" =>
          bcd.result = IF bcd.value <= 99
                       THEN Ok(BitOr(Shl(bcd.value \div 10, 4), bcd.value % 10))
                       ELSE Err
    /\ bcd.pc = "unpacked" =>
          bcd.result = IF Shr(bcd.value, 4) <= 9 /\ BitAnd(bcd.value, 15) <= 9
                       THEN Ok(10 * Shr(bcd.value, 4) + BitAnd(bcd.value, 15))
                       ELSE Err
    /\ (bcd.pc = "packed" /\ bcd.value = 0) => bcd.result = Ok(0)
    /\ (bcd.pc = "packed" /\ bcd.value = 15) => bcd.result = Ok(21)
    /\ (bcd.pc = "packed" /\ bcd.value = 99) => bcd.result = Ok(153)
    /\ (bcd.pc = "unpacked" /\ bcd.value = 21) => bcd.result = Ok(15)
    /\ (bcd.pc = "unpacked" /\ bcd.value = 153) => bcd.result = Ok(99)
    /\ (bcd.pc = "unpacked" /\ bcd.value = 160) => ~bcd.result.ok
C17_Witness ==
    bcd.pc = "unpacked" /\ bcd.value = 160 /\ ~bcd.result.ok

(***************************************************************************)
(* The claims about path lookup, checked under SpecVfs.                    *)
(***************************************************************************)
\* C18: is_file and is_dir are total on every backend: for any path (empty,
\* with `.` or `..` components, naming nothing, or below a regular file) they
\* return a boolean and never abort.
C18_ProbesTotal ==
    vfs.op \in {"is_file", "is_dir"} =>
        ~aborted /\ vfs.result.st = "ok" /\ vfs.result.val \in BOOLEAN

\* what the path names in the filesystem the call was made on
Resolved ==
    IF vfs.fs.kind = "iso" THEN IsoResolve(vfs.fs.image, vfs.path)
    ELSE SquashFsResolve(vfs.fs.root, vfs.path)
ResolvedRoot == Components(vfs.path) \in {<<>>, <<[kind |-> "RootDir"]>>}
ResolvedDir ==
    \/ ResolvedRoot
    \/ /\ Resolved.st = "ok"
       /\ IF vfs.fs.kind = "iso" THEN IsoDirectoryIsDir(Resolved.val)
          ELSE SquashFsIsDir(Resolved.val)
ResolvedFile ==
    /\ ~ResolvedRoot
    /\ Resolved.st = "ok"
    /\ IF vfs.fs.kind = "iso" THEN IsoDirectoryIsFile(Resolved.val)
       ELSE SquashFsIsFile(Resolved.val)

\* C19: open_file on ISO9660 and SquashFS returns a handle only when the path
\* resolves to a regular file; a path that resolves to a directory (the root
\* included) gives a not-a-file error, and a path that resolves to nothing a
\* path-lookup (not-found) error.
C19_OpenOnlyRegularFiles ==
    (vfs.op = "open_file" /\ vfs.fs.kind \in {"iso", "squashfs"}) =>
        /\ vfs.result.st = "ok" => ResolvedFile
        /\ ResolvedDir => (vfs.result.st = "err" /\ vfs.result.error = "NotAFile")
        /\ (~ResolvedRoot /\ Resolved.st = "err") =>
              (vfs.result.st = "err" /\ vfs.result.error \in {"PathNotFound", "PathError"})

\* the last segment of an entry's path
EntryName(entry) == SplitSlash(entry.path, <<>>, <<>>)[Len(SplitSlash(entry.path, <<>>, <<>>))]
DotNames == {<<".">>, <<".", ".">>, <<"<00>">>, <<"<01>">>}

\* C20: read_dir returns no entry for `.` or `..`: the ext2/3/4 backend
\* leaves them out, and the ISO9660 backend skips the two leading records
\* whose identifier is the byte 0x00 or 0x01.
C20_NoDotEntries ==
    (vfs.op = "read_dir" /\ vfs.result.st = "ok") =>
        \A i \in 1..Len(vfs.result.val) : EntryName(vfs.result.val[i]) \notin DotNames

(***************************************************************************)
(* The claims about SquashFS metadata reads, checked under SpecMeta.       *)
(***************************************************************************)
SplitAgrees ==
    /\ vfs.second.st = "ok"
    /\ vfs.whole.data = vfs.first.data \o vfs.second.data
    /\ vfs.whole.block = vfs.second.block
    /\ vfs.whole.offset = vfs.second.offset
WholeLength == (vfs.whole.done /\ vfs.whole.st = "ok") => Len(vfs.whole.data) = vfs.a + vfs.b

\* C21 as stated: read_metadata returns exactly `length` bytes, and for all
\* a, b >= 0 reading a + b bytes from (block, offset) gives the bytes of
\* reading a bytes and then b bytes from the returned cursor, both ways
\* ending at the same cursor.
C21_SplitReadsAgree ==
    /\ WholeLength
    /\ (vfs.whole.done /\ vfs.whole.st = "ok" /\ vfs.second.done) => SplitAgrees
\* C21 as it holds: the same for all a >= 0 and b >= 1; a read of no bytes
\* from a cursor at the start of a block still loads that block.
C21_SplitReadsAgreeNonEmpty ==
    /\ WholeLength
    /\ (vfs.whole.done /\ vfs.whole.st = "ok" /\ vfs.second.done /\ vfs.b >= 1) => SplitAgrees
    /\ (vfs.whole.done /\ vfs.second.done /\ vfs.second.st = "ok" /\ vfs.b >= 1)
          => vfs.whole.st = "ok"
C21_Witness ==
    /\ vfs.whole.done /\ vfs.whole.st = "ok" /\ vfs.second.done /\ vfs.second.st = "ok"
    /\ vfs.offset = 1 /\ vfs.a = 2 * CACHE_CAPACITY /\ vfs.b = 1
    /\ Len(vfs.whole.data) = vfs.a + vfs.b /\ vfs.first.block # vfs.block

\* the n most recently used blocks of the log
LastUse(log, key) == CHOOSE i \in 1..Len(log) : log[i] = key /\ \A j \in (i + 1)..Len(log) : log[j] # key
LastUses(log) == [key \in {log[i] : i \in 1..Len(log)} |-> LastUse(log, key)]
MostRecent(uses, n) ==
    {key \in DOMAIN uses : Cardinality({other \in DOMAIN uses : uses[other] > uses[key]}) < n}
RecentKeys(log, n) == MostRecent(LastUses(log), n)
CachedKeys == {vfs.cache[i].key : i \in 1..Len(vfs.cache)}
CachedFresh ==
    \A i \in 1..Len(vfs.cache) :
        read_block(vfs.image, vfs.cache[i].key)
            = Ok([data |-> vfs.cache[i].data, next |-> vfs.cache[i].next])

\* C22: the block cache never holds more than 100 entries; each is keyed by
\* the on-disk offset of a metadata block and holds its decompressed bytes
\* and the offset of the block after it; a miss on a full cache evicts the
\* least recently used entry, so the cache holds the most recently used
\* blocks.
C22_CacheBoundedLru ==
    /\ Len(vfs.cache) <= 100
    /\ Cardinality(CachedKeys) = Len(vfs.cache)
    /\ CachedFresh
    /\ CachedKeys = RecentKeys(vfs.log, 100)
C22_Witness ==
    /\ Len(vfs.cache) = 100
    /\ \E i \in 1..Len(vfs.log) : vfs.log[i] \notin CachedKeys
    /\ vfs.cache[1].key = vfs.log[Len(vfs.log)]

EmptyCacheRead(block, offset, length) ==
    ReadResult(read_metadata(vfs.image, <<>>, <<>>, block, offset, length))

\* C30: whatever was read and evicted before, read_metadata returns the bytes
\* and the cursor the same call returns on an empty cache, and every cached
\* entry equals a fresh read of its block from the image.
C30_CacheTransparent ==
    /\ vfs.whole.done => vfs.whole = EmptyCacheRead(vfs.block, vfs.offset, vfs.a + vfs.b)
    /\ vfs.first.done => vfs.first = EmptyCacheRead(vfs.block, vfs.offset, vfs.a)
    /\ vfs.second.done => vfs.second = EmptyCacheRead(vfs.first.block, vfs.first.offset, vfs.b)
    /\ \A i \in 1..Len(vfs.cache) :
          read_block(vfs.image, vfs.cache[i].key).val.data = vfs.cache[i].data
C30_Witness ==
    /\ vfs.warm = 1 /\ vfs.whole.done /\ vfs.second.done /\ vfs.second.st = "ok"
    /\ Len(vfs.cache) = 100 /\ Len(vfs.log) > 300

(***************************************************************************)
(* The claim about opening an ISO image, checked under SpecIsoOpen.        *)
(***************************************************************************)
ValidPrimaryDescriptor(header) ==
    /\ header.volume_descriptor_type = 1
    /\ header.version = 1
    /\ header.magic = ISO_MAGIC
\* C24: from_file returns an error when the descriptor type is not 0x01, the
\* version is not 0x01 or the magic is not CD001; it yields a file system
\* only for a valid primary volume descriptor.
C24_OnlyValidDescriptorOpens ==
    (vfs.pc = "opened" /\ vfs.opened.ok) => ValidPrimaryDescriptor(vfs.file.header)

(***************************************************************************)
(* The claim about SquashFS directories, checked under SpecDir.            *)
(***************************************************************************)
RECURSIVE SumOf(_)
SumOf(counts) == IF counts = <<>> THEN 0 ELSE Head(counts) + SumOf(Tail(counts))
\* C25: the directory walk reads count + 1 entries for every header and
\* stops once the bytes consumed reach file_size - 3; it ends in an error
\* with no entries when a header has a count above 255 or an entry has a
\* name_size above 256.
C25_WalkRejectsOversize ==
    (vfs.pc = "opened" /\ vfs.opened.st = "ok")
      => /\ Len(vfs.opened.entries) = SumOf(vfs.opened.counts) + Len(vfs.opened.counts)
         /\ vfs.opened.bytes >= vfs.file_size - 3
         /\ \A i \in 1..Len(vfs.opened.counts) : vfs.opened.counts[i] <= 255
         /\ \A i \in 1..Len(vfs.opened.entries) : Len(vfs.opened.entries[i].name) - 1 <= 256

(***************************************************************************)
(* The claim about trailer extraction, checked under SpecTrailers.         *)
(***************************************************************************)
TrailerFilesTouched ==
    \E i \in 1..Len(extract.writes) : extract.writes[i].by = "trailers"
Requested == extract.trailers.val.items
\* the indexed entries a requested name or id stands for
RequestedEntries(k) ==
    {i \in 1..Len(extract.index) :
        IF extract.trailers.val.kind = "Names"
        THEN extract.index[i].title = Requested[k]
        ELSE extract.index[i].id = Requested[k]}
PlainTrailer(i) == extract.index[i].reel = 14 /\ ~extract.index[i].encrypted
RECURSIVE PayloadsOf(_, _)
PayloadsOf(chosen, k) ==
    IF k > Len(chosen) THEN <<>>
    ELSE Payload(extract.index[chosen[k]]) \o PayloadsOf(chosen, k + 1)
AssembledAudio ==
    extract.writes[CHOOSE i \in 1..Len(extract.writes) :
                      extract.writes[i].by = "trailers"
                        /\ extract.writes[i].name = TrailerAudName].data
\* C27: trailer extraction creates or writes r14t5.aud and r14trlr.txt only
\* when every requested name or id resolved to an indexed entry of reel 14
\* that is not encrypted, and the payloads appended to r14t5.aud after its
\* header are those of such entries, in the order of the request.
C27_OnlyResolvedTrailersWritten ==
    (extract.pc = "done" /\ TrailerFilesTouched) =>
        /\ extract.trailers.some
        /\ \E chosen \in [1..Len(Requested) -> 1..Len(extract.index)] :
              /\ \A k \in 1..Len(Requested) :
                    chosen[k] \in RequestedEntries(k) /\ PlainTrailer(chosen[k])
              /\ AssembledAudio
                    = encode_header(get_generic_trailers_header).val \o PayloadsOf(chosen, 1)

\* two trailers requested by id in the order opposite to the index, both written
C27_Witness ==
    /\ extract.pc = "done" /\ extract.st = "ok" /\ TrailerFilesTouched
    /\ extract.trailers = Some([kind |-> "Ids", items |-> <<2, 1>>])
    /\ Len(extract.index) = 2 /\ extract.index[1].id = 1 /\ extract.index[2].id = 2
    /\ AssembledAudio = encode_header(get_generic_trailers_header).val
                          \o Payload(extract.index[2]) \o Payload(extract.index[1])

(***************************************************************************)
(* The claim about the ISO child-record walk, checked under SpecIsoWalk.   *)
(***************************************************************************)
\* C29: whatever the length and identifier-length bytes of the records, the
\* walk over a directory extent ends normally and indexes no byte of the
\* extent at or beyond data_length, for the 33-byte record header as for
\* the identifier.
C29_WalkStaysInExtent ==
    vfs.pc = "walked" =>
        /\ vfs.walked.st = "ok"
        /\ vfs.walked.touched <= Len(vfs.extent.bytes)

====
